---- MODULE Spec2Model ----
(***************************************************************************)
(* A model of the K.A.R.M.A. (FileSync) synchronisation engine:            *)
(*   - the Reconciler: SyncService.sync_config and the per-backend         *)
(*     sync_folders / _sync_upload / update_file_states (src/src/sync),    *)
(*   - the Scheduler: SyncScheduler (src/src/core/scheduler.py),           *)
(*   - the Change Monitor: FileMonitor (src/src/core/file_monitor.py),     *)
(*   - the Orchestrator entry point trigger_sync (core/orchestrator.py).   *)
(***************************************************************************)
EXTENDS Integers, Sequences, FiniteSets, TLC

(* ------------------------------------------------------------------ *)
(* Bounds of the model                                                  *)
(* ------------------------------------------------------------------ *)
\* modification times are sampled at 0, 2, .., 2*MaxMtime seconds
MaxMtime == 1
\* runs recorded in sync_history after which no further run is started
MaxRuns == 2

\* start() calls of the scheduler
MaxStarts == 4
\* history rows after which the scheduler's worker picks up no further task
MaxSchedHistory == 4
\* sync tasks waiting in the scheduler's queue
MaxQueued == 2
\* reload_configuration calls counted since the last config edit
MaxQuietReloads == 2
\* bytes the written file grows to
MaxFileSize == 2
\* events waiting in the monitor's queue
MaxEventQueue == 2
\* times the clock moves on by the monitor's debounce time
MaxDebounceTicks == 2
\* times the clock jumps past a task timeout
MaxTicks == 1
\* paths an event was reported for or waits to be handled
MaxTreeEvents == 2
\* days the clock runs through
MaxClockDays == 2

(* ------------------------------------------------------------------ *)
(* Program constants                                                    *)
(* ------------------------------------------------------------------ *)
\* abs(state['modified_time'] - local_mtime) > 1
MtimeTolerance == 1
\* SyncScheduler.max_concurrent_tasks
max_concurrent_tasks == 3
\* SyncScheduler.task_timeout, seconds
task_timeout == 3600
\* stop(): for _ in range(3): task_queue.put(None)
StopSentinels == 3
\* FileMonitor.debounce_time, seconds
debounce_time == 5

\* the config of the reconciler specification
Configs == {1}
Paths == {"a", "b"}
TargetTypes == {"local", "ftp", "smb", "s3", "gdrive", "dropbox"}
Mtimes == {2 * k : k \in 0..MaxMtime}

\* a file: its size, its bytes (two files of one size differ in data) and mtime
FileVals(sizes, datas) ==
    [size : sizes, data : datas, mtime : Mtimes]

NoHash == <<"none", 0, 0>>
\* FileUtils.get_file_hash(path, "md5"): a digest of the file's bytes
Hash(f) == <<"md5", f.size, f.data>>

EmptyDir == [p \in {} |-> 0]
ZeroStats == [created |-> 0, updated |-> 0, deleted |-> 0, skipped |-> 0, errors |-> 0]

VARIABLES
    sync_configs,    \* table sync_configs: config id -> settings read by the core
    src,             \* per config: the source tree, relative path -> file
    dst,             \* per config: the destination, relative path -> file
    file_states,     \* table file_states: <<config_id, file_path>> -> row
    sync_history,    \* table sync_history: sequence of rows, row id = index
    sync_stats,      \* per sync manager (target type): its self.sync_stats
    last_return,     \* the value the latest sync_config call returned
    engine_wrote,    \* history: <<config, path>> a run of the config ever put
    unchanged_runs,  \* history: per config, runs finished since its last change
    running,         \* SyncScheduler.running
    task_queue,      \* SyncScheduler.task_queue: tasks and None sentinels
    active_tasks,    \* SyncScheduler.active_tasks: config id -> start_time
    idle_workers,    \* number of live _process_tasks threads between tasks
    busy_workers,    \* the _process_tasks threads inside _handle_sync_task
    jobs,            \* configs with a job registered in the schedule library
    due,             \* the registered jobs whose next run time has come
    starts,          \* number of start() calls that started threads
    now,             \* the wall clock, in seconds
    callers,         \* threads inside trigger_sync -> SyncService.sync_config
    event_queue,     \* FileMonitor.event_queue
    last_events,     \* FileMonitor.last_events: <<type, path>> -> timestamp
    file_sizes,      \* FileMonitor.file_sizes: <<config, path>> -> size seen
    mon_worker,      \* FileMonitor.worker_thread: "fresh", "caught" (it caught
                     \* an exception), "resumed" (and handled an event
                     \* since) or "dead"
    last_outcome,    \* what became of the event the worker took last:
                     \* "none" yet, "debounced", "handled" or "raised"
    observers,       \* FileMonitor.observers: watched path -> config id bound
    schedules,       \* SyncScheduler.schedules: config id -> [type, value]
    dirs,            \* the source directories that exist
    quiet_reloads,   \* reload_configuration calls since a config was last edited
    reg_calls,       \* add_/remove_ calls the last reload_configuration made
    next_run,        \* config id -> next_run of its job checked against the
                     \* clock (monthly, custom), in seconds
    job_log,         \* history: config id -> what its clock job did last
    sched_lock,      \* SyncScheduler.lock: the thread holding it, 0 when free
    reloaders,       \* threads inside reload_configuration: thread -> position
    runners,         \* threads inside LocalSyncManager.sync_folders: thread -> run
    current_sync_id  \* LocalSyncManager.current_sync_id, 0 for None

syncVars == <<sync_configs, src, dst, file_states, sync_history, sync_stats,
              last_return, engine_wrote, unchanged_runs>>
schedVars == <<running, task_queue, active_tasks, idle_workers, busy_workers,
               jobs, due, starts, now>>
monVars == <<event_queue, last_events, file_sizes, mon_worker,
            last_outcome>>
clockVars == <<next_run, job_log>>
runVars == <<runners, current_sync_id>>
threadVars == <<sched_lock, reloaders, runVars>>
regVars == <<observers, schedules, dirs, quiet_reloads, reg_calls, clockVars,
             threadVars>>
vars == <<syncVars, schedVars, callers, monVars, regVars>>

(* ------------------------------------------------------------------ *)
(* File State Store (DatabaseManager)                                   *)
(* ------------------------------------------------------------------ *)
\* get_file_states(config_id): the rows of one config, keyed by file_path
GetFileStates(fs, c) ==
    [p \in {q \in Paths : <<c, q>> \in DOMAIN fs} |-> fs[<<c, p>>]]

\* the table after the rows of config c are replaced by `rows`
PutFileStates(fs, c, rows) ==
    [k \in {k2 \in DOMAIN fs : k2[1] # c} \cup {<<c, p>> : p \in DOMAIN rows} |->
        IF k[1] = c THEN rows[k[2]] ELSE fs[k]]

(* ------------------------------------------------------------------ *)
(* Per-backend traits                                                   *)
(* ------------------------------------------------------------------ *)
\* the backend compares a content fingerprint (md5 / ETag / content hash)
HasFingerprint(tt) == tt \in {"local", "s3", "dropbox"}

\* the delete pass consults file_states before deleting
DeleteChecksFileState(tt) == tt \in {"local", "ftp", "smb"}

\* _update_file_state_in_db: the row written for a synced source file
RowOf(tt, f) ==
    [file_hash |-> IF tt = "local" THEN Hash(f) ELSE NoHash,
     modified_time |-> f.mtime,
     sync_status |-> "synced"]

\* what the destination holds after put(f): copy2 keeps the mtime, a remote
\* store stamps its own time t
Stored(tt, f, t) ==
    IF tt = "local" THEN f ELSE [f EXCEPT !.mtime = t]

Abs(x) == IF x < 0 THEN -x ELSE x

\* a comparison chain that ends in "changed" where the source ends in "same"
NeedUpdateNoConverge(tt, s, d, rows, p) == TRUE

\* a comparison chain that never asks the stored FileState row
NeedUpdateNoStore(tt, s, d, rows, p) ==
    \/ s.size # d.size
    \/ s.mtime > d.mtime
    \/ HasFingerprint(tt) /\ Hash(s) # Hash(d)

\* _need_update / _need_upload
NeedUpdate(tt, s, d, rows, p) ==
    IF s.size # d.size THEN TRUE
    ELSE IF s.mtime > d.mtime THEN TRUE
    ELSE IF HasFingerprint(tt) /\ Hash(s) # Hash(d) THEN TRUE
    ELSE IF p \in DOMAIN rows
         THEN IF tt = "local"
              THEN rows[p].file_hash # Hash(s)
              ELSE Abs(rows[p].modified_time - s.mtime) > MtimeTolerance
         ELSE FALSE

\* a delete pass that asks no row of any backend
DeleteAuthorizedUnchecked(tt, rows, q) == TRUE

\* a delete pass that never finds a row
DeleteAuthorizedNever(tt, rows, q) == DeleteChecksFileState(tt) => FALSE

\* the delete pass: may destination entry q (absent from the source) be deleted
DeleteAuthorized(tt, rows, q) ==
    DeleteChecksFileState(tt) => q \in DOMAIN rows

Restrict(f, D) == [x \in D |-> f[x]]

\* a push run that gives up at the first I/O error
SyncUploadAborting(tt, S, D, R, delete_mode, failPut, failDel, putTime) ==
    [dst |-> D, rows |-> R, put |-> {},
     stats |-> [ZeroStats EXCEPT !.errors = 1]]

(* ------------------------------------------------------------------ *)
(* Reconciler: one push run of a sync manager                           *)
(* ------------------------------------------------------------------ *)
\* sync_folders / _sync_upload over source tree S, destination D and the
\* config's rows R.  failPut / failDel are the paths whose transfer / delete
\* meets an I/O error in this run, putTime the time a remote store stamps.
\* Result: the destination, the rows and the counters after the run.
SyncUpload(tt, S, D, R, delete_mode, failPut, failDel, putTime) ==
    LET source_files == DOMAIN S
        target_files == DOMAIN D
        toCreate == source_files \ target_files
        toUpdate == {p \in source_files \cap target_files :
                        NeedUpdate(tt, S[p], D[p], R, p)}
        toSkip   == (source_files \cap target_files) \ toUpdate
        putOk    == (toCreate \cup toUpdate) \ failPut
        putErr   == (toCreate \cup toUpdate) \cap failPut
        D1 == [p \in target_files \cup putOk |->
                  IF p \in putOk THEN Stored(tt, S[p], putTime) ELSE D[p]]
        R1 == [p \in DOMAIN R \cup putOk |->
                  IF p \in putOk THEN RowOf(tt, S[p]) ELSE R[p]]
        toDelete == IF delete_mode
                    THEN {q \in target_files \ source_files :
                             DeleteAuthorized(tt, R1, q)}
                    ELSE {}
        delOk  == toDelete \ failDel
        delErr == toDelete \cap failDel
    IN  [dst   |-> Restrict(D1, DOMAIN D1 \ delOk),
         rows  |-> Restrict(R1, DOMAIN R1 \ delOk),
         put   |-> putOk,
         stats |-> [created |-> Cardinality(toCreate \ failPut),
                    updated |-> Cardinality(toUpdate \ failPut),
                    deleted |-> Cardinality(delOk),
                    skipped |-> Cardinality(toSkip),
                    errors  |-> Cardinality(putErr) + Cardinality(delErr)]]

\* update_file_states: a 'synced' row for every source file, no row for a
\* path that is not in the source
UpdateFileStates(tt, S, R) ==
    [p \in DOMAIN S |-> RowOf(tt, S[p])]

\* status a sync manager writes into the history row it finalises
ManagerStatus(stats) == IF stats.errors = 0 THEN "success" ELSE "error"

\* status SyncService.sync_config writes into its own history row
ServiceStatus(success) == IF success THEN "completed" ELSE "failed"

\* the service finalises its row only while the row still says running
ServiceFinalize(h, hid, success) ==
    IF h[hid].status \in {"running", "in_progress"}
    THEN [h EXCEPT ![hid].status = ServiceStatus(success)]
    ELSE h

HistoryRow(c, st) == [config_id |-> c, status |-> st]

\* a sync_config that takes no notice of a refused connection: it marks the
\* files of the source as synced and reports the run completed
SyncOutcomeUnconnected(c, hid, h, D, fs, stats0, connectOk, failPut, failDel, putTime) ==
    [dst |-> D,
     fs  |-> PutFileStates(fs, c,
                 UpdateFileStates(sync_configs[c].target_type, src[c],
                                  GetFileStates(fs, c))),
     stats |-> stats0,
     put |-> {},
     history |-> [h EXCEPT ![hid].status = "completed"],
     success |-> TRUE]

\* os.path.exists(source_path) fails for config c; a config kept without a
\* source_path has its source directory in place
SourceMissing(c) ==
    /\ "source_path" \in DOMAIN sync_configs[c]
    /\ sync_configs[c].source_path \notin dirs

\* SyncService.sync_config after its 'running' row hid was added: the state
\* the call leaves behind and the value it returns
SyncOutcome(c, hid, h, D, fs, stats0, connectOk, failPut, failDel, putTime) ==
    LET cfg == sync_configs[c]
        tt  == cfg.target_type
        S   == src[c]
        R   == GetFileStates(fs, c)
        run == SyncUpload(tt, S, D, R, cfg.delete_missing, failPut, failDel, putTime)
        unchanged == [dst |-> D, fs |-> fs, stats |-> stats0, put |-> {}]
    IN  IF tt = "local" /\ SourceMissing(c) THEN
            \* sync_folders marks the row and returns the zeroed counts
            [dst |-> D,
             fs |-> PutFileStates(fs, c, UpdateFileStates(tt, EmptyDir, R)),
             stats |-> ZeroStats,
             put |-> {},
             history |-> ServiceFinalize([h EXCEPT ![hid].status = "error"],
                                         hid, ZeroStats.errors = 0),
             success |-> ZeroStats.errors = 0]
        ELSE IF tt = "local" THEN
            [dst |-> run.dst,
             fs  |-> PutFileStates(fs, c, UpdateFileStates(tt, S, run.rows)),
             stats |-> run.stats,
             put |-> run.put,
             history |-> ServiceFinalize(
                 [h EXCEPT ![hid].status = ManagerStatus(run.stats)],
                 hid, run.stats.errors = 0),
             success |-> run.stats.errors = 0]
        ELSE IF ~connectOk THEN
            unchanged @@ [history |-> [h EXCEPT ![hid].status = "failed"],
                          success |-> FALSE]
        ELSE IF tt = "dropbox" THEN
            \* target_info carries 'folder', sync_folders reads 'path':
            \* it returns the counters of the previous run at once
            unchanged @@ [history |-> ServiceFinalize(h, hid, stats0.errors = 0),
                          success |-> stats0.errors = 0]
        ELSE
            [dst |-> run.dst,
             fs  |-> PutFileStates(fs, c, UpdateFileStates(tt, S, run.rows)),
             stats |-> run.stats,
             put |-> run.put,
             history |-> ServiceFinalize(
                 Append(h, HistoryRow(c, ManagerStatus(run.stats))),
                 hid, run.stats.errors = 0),
             success |-> run.stats.errors = 0]

(* ------------------------------------------------------------------ *)
(* Orchestrator.trigger_sync: a whole run, called synchronously         *)
(* ------------------------------------------------------------------ *)
\* the history rows added by SyncService.sync_config, one per run (a remote
\* manager adds a second row of its own, 'in_progress' then 'success'/'error')
IsServiceRow(row) ==
    \/ sync_configs[row.config_id].target_type = "local"
    \/ row.status \in {"running", "completed", "failed"}

RunsStarted ==
    Cardinality({i \in 1..Len(sync_history) : IsServiceRow(sync_history[i])})

\* inputs of one run: whether the remote end can be reached, which of the
\* paths present meet an I/O error, and the time a remote store stamps
RunInputs(c) ==
    LET tt == sync_configs[c].target_type
        S  == src[c]
        D  == dst[c]
        R  == GetFileStates(file_states, c)
        transfers == {p \in DOMAIN S :
                         IF p \in DOMAIN D THEN NeedUpdate(tt, S[p], D[p], R, p)
                         ELSE TRUE}
        deletions == IF sync_configs[c].delete_missing
                     THEN {q \in DOMAIN D \ DOMAIN S : DeleteAuthorized(tt, R, q)}
                     ELSE {}
        noFault == [connectOk |-> TRUE, failPut |-> {}, failDel |-> {}, putTime |-> 0]
    IN  IF tt = "local"
        THEN [connectOk : {TRUE}, failPut : SUBSET transfers,
              failDel : SUBSET deletions, putTime : {0}]
        ELSE IF tt = "dropbox"
        THEN {noFault, [noFault EXCEPT !.connectOk = FALSE]}
        ELSE {[noFault EXCEPT !.connectOk = FALSE]} \cup
             [connectOk : {TRUE}, failPut : SUBSET transfers,
              failDel : SUBSET deletions,
              putTime : IF transfers = {} THEN {0} ELSE Mtimes]

\* SyncService.sync_config(c) called in the current state with inputs in
SyncConfigCall(c, in) ==
    LET h0 == Append(sync_history, HistoryRow(c, "running"))
    IN  SyncOutcome(c, Len(h0), h0, dst[c], file_states,
                    sync_stats[sync_configs[c].target_type], in.connectOk,
                    in.failPut, in.failDel, in.putTime)

\* the state a sync_config(c) call with outcome out leaves, the caller
\* having brought sync_history to history
ApplyRun(c, out, history) ==
    /\ dst' = [dst EXCEPT ![c] = out.dst]
    /\ file_states' = out.fs
    /\ sync_history' = history
    /\ sync_stats' = [sync_stats EXCEPT ![sync_configs[c].target_type] = out.stats]
    /\ last_return' = [config_id |-> c, success |-> out.success]
    /\ engine_wrote' = engine_wrote \cup {<<c, p>> : p \in out.put}
    /\ unchanged_runs' = [unchanged_runs EXCEPT ![c] = @ + 1]
    /\ UNCHANGED <<sync_configs, src>>

TriggerSync(c) ==
    /\ c \in DOMAIN sync_configs
    /\ RunsStarted < MaxRuns
    /\ \E in \in RunInputs(c) :
        LET out == SyncConfigCall(c, in)
        IN  ApplyRun(c, out, out.history)
    /\ UNCHANGED <<schedVars, callers, monVars, regVars>>

(* ------------------------------------------------------------------ *)
(* The user, outside the engine                                         *)
(* ------------------------------------------------------------------ *)
\* the user writes file f at path p of the source tree of config c
WriteSource(c, p, f) ==
    /\ IF p \in DOMAIN src[c] THEN src[c][p] # f ELSE TRUE
    /\ src' = [src EXCEPT ![c] = [q \in DOMAIN src[c] \cup {p} |->
                                     IF q = p THEN f ELSE src[c][q]]]
    /\ unchanged_runs' = [unchanged_runs EXCEPT ![c] = 0]
    /\ UNCHANGED <<sync_configs, dst, file_states, sync_history, sync_stats,
                   last_return, engine_wrote>>
    /\ UNCHANGED <<schedVars, callers, monVars, regVars>>

\* the user removes path p from the source tree of config c
RemoveSource(c, p) ==
    /\ p \in DOMAIN src[c]
    /\ src' = [src EXCEPT ![c] = Restrict(src[c], DOMAIN src[c] \ {p})]
    /\ unchanged_runs' = [unchanged_runs EXCEPT ![c] = 0]
    /\ UNCHANGED <<sync_configs, dst, file_states, sync_history, sync_stats,
                   last_return, engine_wrote>>
    /\ UNCHANGED <<schedVars, callers, monVars, regVars>>

\* the user places file f at path p of the destination, not through the engine
PlaceInDestination(c, p, f) ==
    /\ IF p \in DOMAIN dst[c] THEN dst[c][p] # f ELSE TRUE
    /\ dst' = [dst EXCEPT ![c] = [q \in DOMAIN dst[c] \cup {p} |->
                                     IF q = p THEN f ELSE dst[c][q]]]
    /\ unchanged_runs' = [unchanged_runs EXCEPT ![c] = 0]
    /\ UNCHANGED <<sync_configs, src, file_states, sync_history, sync_stats,
                   last_return, engine_wrote>>
    /\ UNCHANGED <<schedVars, callers, monVars, regVars>>

(* ------------------------------------------------------------------ *)
(* Specification of the reconciler: runs of one config between edits    *)
(* ------------------------------------------------------------------ *)
\* files the user may write at path "a": one content at every time, and at
\* time 0 a content of the same size and one of another size; path "b" holds
\* FileB, which the user may have put into the destination beforehand
FilesA ==
    FileVals({1}, {0}) \cup
    {[size |-> 1, data |-> 1, mtime |-> 0], [size |-> 2, data |-> 0, mtime |-> 0]}
FileB == [size |-> 1, data |-> 0, mtime |-> 0]

InitStats == [tt \in TargetTypes |-> ZeroStats]
NoReturn == [config_id |-> 0, success |-> FALSE]

\* FileMonitor.__init__
MonitorIdle ==
    /\ event_queue = <<>>
    /\ last_events = [k \in {} |-> 0]
    /\ file_sizes = [k \in {} |-> 0]
    /\ mon_worker = "fresh"
    /\ last_outcome = "none"

\* the directories a config's source_path may name
SourcePaths == {"p", "q"}

\* a schedule as add_schedule keeps it
Schedule(type, value) == [type |-> type, value |-> value]

NoWatches == [d \in {} |-> 0]
NoSchedules == [c \in {} |-> 0]
\* no job is checked against the clock
NoRuns == [c \in {} |-> 0]

\* the watches W and the schedules S are registered, every directory exists
Registered(W, S) ==
    /\ observers = W
    /\ schedules = S
    /\ dirs = SourcePaths
    /\ quiet_reloads = 1
    /\ reg_calls = {}
    /\ next_run = NoRuns
    /\ job_log = NoRuns
    /\ sched_lock = 0
    /\ reloaders = NoRuns
    /\ runners = NoRuns
    /\ current_sync_id = 0

\* SyncScheduler.__init__ and FileMonitor.__init__
ServicesIdle ==
    /\ running = FALSE
    /\ task_queue = <<>>
    /\ active_tasks = [c \in {} |-> 0]
    /\ idle_workers = 0
    /\ busy_workers = {}
    /\ jobs = {}
    /\ due = {}
    /\ starts = 0
    /\ now = 0
    /\ callers = {}
    /\ MonitorIdle

\* ... and SyncOrchestrator.__init__: nothing watched, nothing scheduled
SchedulerIdle ==
    /\ ServicesIdle
    /\ Registered(NoWatches, NoSchedules)

\* a fresh database and fresh sync managers over configs C with settings cfg
\* and destination trees D
FreshStore(C, cfg, D) ==
    /\ sync_configs = [c \in C |-> cfg]
    /\ src = [c \in C |-> EmptyDir]
    /\ dst = [c \in C |-> D]
    /\ file_states = [k \in {} |-> 0]
    /\ sync_history = <<>>
    /\ sync_stats = InitStats
    /\ last_return = NoReturn
    /\ engine_wrote = {}
    /\ unchanged_runs = [c \in C |-> 0]

InitSync ==
    /\ \E tt \in TargetTypes, dm \in BOOLEAN,
          D \in {EmptyDir, [p \in {"b"} |-> FileB]} :
          FreshStore(Configs, [target_type |-> tt, delete_missing |-> dm], D)
    /\ SchedulerIdle

NextSync ==
    \/ \E c \in Configs : TriggerSync(c)
    \/ \E c \in Configs, f \in FilesA : WriteSource(c, "a", f)
    \/ \E c \in Configs : RemoveSource(c, "a")
    \/ \E c \in Configs, f \in FilesA : PlaceInDestination(c, "a", f)

SpecSync == InitSync /\ [][NextSync]_vars

(* ------------------------------------------------------------------ *)
(* SyncScheduler                                                        *)
(* ------------------------------------------------------------------ *)
SyncTask(c) == [type |-> "sync", config_id |-> c]
NoneTask == [type |-> "none", config_id |-> 0]

\* the sync tasks waiting in the queue
QueuedSyncs == {i \in 1..Len(task_queue) : task_queue[i].type = "sync"}

RECURSIVE Sentinels(_)
Sentinels(n) == IF n = 0 THEN <<>> ELSE <<NoneTask>> \o Sentinels(n - 1)

\* the guard run_sync_now and _enqueue_sync_task share: always open
MayEnqueueAlways(c) == TRUE

\* the guard run_sync_now and _enqueue_sync_task share
MayEnqueue(c) ==
    /\ c \notin DOMAIN active_tasks
    /\ Cardinality(DOMAIN active_tasks) < max_concurrent_tasks

\* start(): a new scheduler thread, worker thread and timeout thread
Start ==
    /\ ~running
    /\ starts < MaxStarts
    /\ running' = TRUE
    /\ idle_workers' = idle_workers + 1
    /\ starts' = starts + 1
    /\ UNCHANGED <<task_queue, active_tasks, busy_workers, jobs, due, now>>
    /\ UNCHANGED <<syncVars, callers, monVars, regVars>>

\* stop(), under the lock: the flag, the sentinels, the joins (a worker
\* between tasks ends, taking a sentinel if one heads the queue; a worker inside
\* a run outlives the 5 s join), schedule.clear()
Stop ==
    /\ running
    /\ running' = FALSE
    /\ LET q == task_queue \o Sentinels(StopSentinels)
       IN  \E k \in 0..idle_workers :
              /\ k <= Len(q)
              /\ \A i \in 1..k : q[i].type = "none"
              /\ task_queue' = SubSeq(q, k + 1, Len(q))
    /\ idle_workers' = 0
    /\ jobs' = {}
    /\ due' = {}
    /\ next_run' = NoRuns
    /\ UNCHANGED <<active_tasks, busy_workers, starts, now>>
    /\ UNCHANGED <<syncVars, callers, monVars, observers, schedules, dirs,
                   quiet_reloads, reg_calls, job_log, threadVars>>

\* the configs a trigger has reached so far: every accepted task is in the
\* queue or, once taken, in the history
Triggered ==
    {task_queue[i].config_id : i \in QueuedSyncs} \cup
    {sync_history[i].config_id : i \in 1..Len(sync_history)}

\* configs are alike, so triggers reach new configs in the order of their ids
NextInTurn(c) == \A c2 \in DOMAIN sync_configs : c2 < c => c2 \in Triggered

\* what run_sync_now(c) returns: True when it put the task into the queue
RunSyncNowReturns(c) ==
    /\ running
    /\ c \in DOMAIN sync_configs
    /\ MayEnqueue(c)

\* run_sync_now(c); a call that returns False changes nothing
RunSyncNow(c) ==
    /\ RunSyncNowReturns(c)
    /\ NextInTurn(c)
    /\ Cardinality(QueuedSyncs) < MaxQueued
    /\ task_queue' = Append(task_queue, SyncTask(c))
    /\ UNCHANGED <<running, active_tasks, idle_workers, busy_workers, jobs, due,
                   starts, now>>
    /\ UNCHANGED <<syncVars, callers, monVars, regVars>>

\* the scheduler thread runs the due job of config c, which the schedule
\* library then sets to its next period: _enqueue_sync_task(c)
ScheduleFires(c) ==
    /\ running
    /\ c \in due
    /\ NextInTurn(c)
    /\ due' = due \ {c}
    /\ task_queue' = IF MayEnqueue(c) THEN Append(task_queue, SyncTask(c))
                     ELSE task_queue
    /\ UNCHANGED <<running, active_tasks, idle_workers, busy_workers, jobs,
                   starts, now>>
    /\ UNCHANGED <<syncVars, callers, monVars, regVars>>

\* _process_tasks takes a sync task: _handle_sync_task registers it in
\* active_tasks, adds its 'running' history row and enters sync_config
WorkerTakesTask ==
    /\ running
    /\ idle_workers > 0
    /\ task_queue # <<>>
    /\ Head(task_queue).type = "sync"
    /\ Len(sync_history) < MaxSchedHistory
    /\ LET c == Head(task_queue).config_id
       IN  /\ active_tasks' = [x \in DOMAIN active_tasks \cup {c} |->
                                  IF x = c THEN now ELSE active_tasks[x]]
           /\ sync_history' = Append(sync_history, HistoryRow(c, "running"))
           /\ busy_workers' = busy_workers \cup
                  {[config_id |-> c, history_id |-> Len(sync_history) + 1]}
    /\ task_queue' = Tail(task_queue)
    /\ idle_workers' = idle_workers - 1
    /\ UNCHANGED <<running, jobs, due, starts, now>>
    /\ UNCHANGED <<sync_configs, src, dst, file_states, sync_stats, last_return,
                   engine_wrote, unchanged_runs, callers, monVars, regVars>>

\* _process_tasks takes a None sentinel and ends
WorkerTakesNone ==
    /\ running
    /\ idle_workers > 0
    /\ task_queue # <<>>
    /\ Head(task_queue).type = "none"
    /\ task_queue' = Tail(task_queue)
    /\ idle_workers' = idle_workers - 1
    /\ UNCHANGED <<running, active_tasks, busy_workers, jobs, due, starts, now>>
    /\ UNCHANGED <<syncVars, callers, monVars, regVars>>

\* active_tasks after _handle_sync_task ended for config c: as it was
UnregisteredNot(c) == active_tasks

\* active_tasks after _handle_sync_task ended for config c, by its last
\* statements or by its except branch: del self.active_tasks[config_id]
Unregistered(c) == Restrict(active_tasks, DOMAIN active_tasks \ {c})

\* the sync_config call of worker w returns: _handle_sync_task finalises its
\* history row and drops the config from active_tasks; the worker goes on
\* while self.running holds and ends otherwise
WorkerFinishes(w) ==
    /\ w \in busy_workers
    /\ \E in \in RunInputs(w.config_id) :
        LET c   == w.config_id
            out == SyncConfigCall(c, in)
        IN  ApplyRun(c, out,
                [out.history EXCEPT ![w.history_id].status =
                                        ServiceStatus(out.success)])
    /\ active_tasks' = Unregistered(w.config_id)
    /\ busy_workers' = busy_workers \ {w}
    /\ idle_workers' = IF running THEN idle_workers + 1 ELSE idle_workers
    /\ UNCHANGED <<running, task_queue, jobs, due, starts, now, callers, monVars, regVars>>

\* the sync_config call of worker w raises (the database refuses its
\* add_sync_history, which is outside its try block): the except branch of
\* _handle_sync_task drops the config from active_tasks and adds a 'failed'
\* history row of its own
WorkerRaises(w) ==
    /\ w \in busy_workers
    /\ sync_history' = Append(sync_history, HistoryRow(w.config_id, "failed"))
    /\ active_tasks' = Unregistered(w.config_id)
    /\ busy_workers' = busy_workers \ {w}
    /\ idle_workers' = IF running THEN idle_workers + 1 ELSE idle_workers
    /\ UNCHANGED <<sync_configs, src, dst, file_states, sync_stats, last_return,
                   engine_wrote, unchanged_runs>>
    /\ UNCHANGED <<running, task_queue, jobs, due, starts, now, callers, monVars, regVars>>

\* _check_task_timeouts: every task older than task_timeout gets a 'timeout'
\* history row and leaves active_tasks
RECURSIVE TimeoutRows(_)
TimeoutRows(C) ==
    IF C = {} THEN <<>>
    ELSE LET c == CHOOSE x \in C : \A y \in C : x <= y
         IN  <<HistoryRow(c, "timeout")>> \o TimeoutRows(C \ {c})

ReapTimeouts ==
    /\ running
    /\ LET late == {c \in DOMAIN active_tasks :
                       now - active_tasks[c] > task_timeout}
       IN  /\ late # {}
           /\ sync_history' = sync_history \o TimeoutRows(late)
           /\ active_tasks' = Restrict(active_tasks, DOMAIN active_tasks \ late)
    /\ UNCHANGED <<running, task_queue, idle_workers, busy_workers, jobs, due,
                   starts, now>>
    /\ UNCHANGED <<sync_configs, src, dst, file_states, sync_stats, last_return,
                   engine_wrote, unchanged_runs, callers, monVars, regVars>>

\* _check_task_timeouts, the add_sync_history call for task f raising: the
\* rows of the late tasks before f are written, the exception leaves the
\* loop and the lock, and the del loop is not reached
ReapTimeoutsRaises(f) ==
    /\ running
    /\ Len(sync_history) < MaxSchedHistory
    /\ LET late == {c \in DOMAIN active_tasks :
                       now - active_tasks[c] > task_timeout}
       IN  /\ f \in late
           /\ sync_history' = sync_history \o
                  TimeoutRows({c \in late : c < f})
    /\ UNCHANGED <<running, task_queue, active_tasks, idle_workers,
                   busy_workers, jobs, due, starts, now>>
    /\ UNCHANGED <<sync_configs, src, dst, file_states, sync_stats, last_return,
                   engine_wrote, unchanged_runs, callers, monVars, regVars>>

\* time passes: more than a task timeout and than the period of every job
Tick ==
    /\ now < MaxTicks * (task_timeout + 1)
    /\ now' = now + task_timeout + 1
    /\ due' = jobs
    /\ UNCHANGED <<running, task_queue, active_tasks, idle_workers,
                   busy_workers, jobs, starts>>
    /\ UNCHANGED <<syncVars, callers, monVars, regVars>>

(* ------------------------------------------------------------------ *)
(* Specification of the scheduler: one more config than task slots, each *)
(* with a schedule job, the scheduler started                           *)
(* ------------------------------------------------------------------ *)
SchedConfigs == 1..(max_concurrent_tasks + 1)

\* the scheduler after start(), with a job registered and due for each of C
SchedulerStarted(C) ==
    /\ running = TRUE
    /\ task_queue = <<>>
    /\ active_tasks = [c \in {} |-> 0]
    /\ idle_workers = 1
    /\ busy_workers = {}
    /\ jobs = C
    /\ due = C
    /\ starts = 1
    /\ now = 0
    /\ callers = {}
    /\ MonitorIdle
    /\ Registered(NoWatches, [c \in C |-> Schedule("interval", "60")])

InitSched ==
    /\ FreshStore(SchedConfigs,
                  [target_type |-> "local", delete_missing |-> TRUE], EmptyDir)
    /\ SchedulerStarted(SchedConfigs)

NextSched ==
    \/ Start
    \/ Stop
    \/ RunSyncNow(1)
    \/ \E c \in SchedConfigs : ScheduleFires(c)
    \/ WorkerTakesTask
    \/ WorkerTakesNone
    \/ \E w \in busy_workers : WorkerFinishes(w)
    \/ ReapTimeouts
    \/ Tick

SpecSched == InitSched /\ [][NextSched]_vars

(* ------------------------------------------------------------------ *)
(* Specification of the task queue: the scheduler running with up to    *)
(* max_concurrent_tasks runs in progress, left by earlier restarts      *)
(* ------------------------------------------------------------------ *)
\* the scheduler with runs of configs 1..k in progress
InitEnqueue ==
    \E k \in 0..max_concurrent_tasks :
        /\ sync_configs = [c \in SchedConfigs |->
                              [target_type |-> "local", delete_missing |-> TRUE]]
        /\ src = [c \in SchedConfigs |-> EmptyDir]
        /\ dst = [c \in SchedConfigs |-> EmptyDir]
        /\ file_states = [x \in {} |-> 0]
        /\ sync_history = [i \in 1..k |-> HistoryRow(i, "running")]
        /\ sync_stats = InitStats
        /\ last_return = NoReturn
        /\ engine_wrote = {}
        /\ unchanged_runs = [c \in SchedConfigs |-> 0]
        /\ running = TRUE
        /\ task_queue = <<>>
        /\ active_tasks = [c \in 1..k |-> 0]
        /\ idle_workers = 1
        /\ busy_workers = {[config_id |-> i, history_id |-> i] : i \in 1..k}
        /\ jobs = SchedConfigs
        /\ due = SchedConfigs
        /\ starts = k + 1
        /\ now = 0
        /\ callers = {}
        /\ MonitorIdle
        /\ Registered(NoWatches,
                      [c \in SchedConfigs |-> Schedule("interval", "60")])

NextEnqueue ==
    \/ \E c \in SchedConfigs : RunSyncNow(c)
    \/ \E c \in SchedConfigs : ScheduleFires(c)
    \/ WorkerTakesTask
    \/ Stop

SpecEnqueue == InitEnqueue /\ [][NextEnqueue]_vars

\* the number of sync_config calls for config c in progress
Executing(c) ==
    Cardinality({t \in callers : t.config_id = c}) +
    Cardinality({w \in busy_workers : w.config_id = c})

(* ------------------------------------------------------------------ *)
(* Specification of the timeout sweep: runs in progress grow old, the   *)
(* sweep's history writes may fail                                      *)
(* ------------------------------------------------------------------ *)
NextReap ==
    \/ Tick
    \/ ReapTimeouts
    \/ \E f \in SchedConfigs : ReapTimeoutsRaises(f)
    \/ \E c \in SchedConfigs : ScheduleFires(c)
    \/ WorkerTakesTask
    \/ \E w \in busy_workers : WorkerFinishes(w)

SpecReap == InitEnqueue /\ [][NextReap]_vars

\* the tasks a sweep finds older than task_timeout
Late == {c \in DOMAIN active_tasks : now - active_tasks[c] > task_timeout}

\* the rows a step appends to the history
NewRows == SubSeq(sync_history', Len(sync_history) + 1, Len(sync_history'))

\* C26: a sweep of the reaper removes every task older than task_timeout
\* from active_tasks and writes exactly one 'timeout' row for it, and leaves
\* the other tasks in active_tasks; so no task is reaped twice.
C26_ReapedOnce ==
    [][IF Len(sync_history') > Len(sync_history) /\ NewRows[1].status = "timeout"
       THEN /\ \A c \in Late :
                  /\ c \notin DOMAIN active_tasks'
                  /\ Cardinality({i \in 1..Len(NewRows) :
                                      NewRows[i] = HistoryRow(c, "timeout")}) = 1
            /\ Len(NewRows) = Cardinality(Late)
            /\ \A c \in DOMAIN active_tasks \ Late :
                  /\ c \in DOMAIN active_tasks'
                  /\ active_tasks'[c] = active_tasks[c]
       ELSE TRUE]_vars

\* an enqueue attempt for config c is to be refused
Refused(c) ==
    \/ c \in DOMAIN active_tasks
    \/ Cardinality(DOMAIN active_tasks) >= max_concurrent_tasks

\* the ids run_sync_now is called with: the configs and an id of none
CalledIds == SchedConfigs \cup {max_concurrent_tasks + 2}

\* C24: no sync task for a config is put into the queue while the config
\* is in active_tasks or active_tasks is full, and an enqueue leaves
\* active_tasks alone; a schedule job that fires then leaves the queue and
\* active_tasks as they are; run_sync_now returns False then, and also
\* when the scheduler is stopped or the config does not exist.
C24_RefusedEnqueue ==
    /\ [][\A c \in SchedConfigs :
            /\ task_queue' = Append(task_queue, SyncTask(c)) =>
                   ~Refused(c) /\ active_tasks' = active_tasks
            /\ (running' /\ c \in due /\ c \notin due' /\ Refused(c)) =>
                   UNCHANGED <<task_queue, active_tasks>>]_vars
    /\ [](\A c \in CalledIds :
            (~running \/ c \notin DOMAIN sync_configs \/ Refused(c)) =>
                ~RunSyncNowReturns(c))

\* the job of a config whose run is in progress fired and was refused: the
\* config has no task in the queue and no history row but that of its run
C24_Witness ==
    \E c \in SchedConfigs :
        /\ running
        /\ c \in DOMAIN active_tasks
        /\ c \in jobs \ due
        /\ \A i \in QueuedSyncs : task_queue[i].config_id # c
        /\ Cardinality({i \in 1..Len(sync_history) :
                            sync_history[i].config_id = c}) = 1
        /\ Executing(c) = 1

(* ------------------------------------------------------------------ *)
(* Claims about the scheduler and the triggers                          *)
(* ------------------------------------------------------------------ *)
\* C4: whatever the mix of triggers, at most one sync_config run is in
\* progress for a config at any time.
C4_OneRunPerConfig ==
    \A c \in DOMAIN sync_configs : Executing(c) <= 1

\* C5: active_tasks never holds more than max_concurrent_tasks entries
\* (one entry per config is what a dict keyed by config id gives).
C5_ActiveWithinLimit ==
    Cardinality(DOMAIN active_tasks) <= max_concurrent_tasks

\* C6: a config triggered through the scheduler while an earlier trigger of
\* it has not completed is not queued and not run a second time: the tasks of
\* one config waiting or being handled number at most one.
C6_SecondTriggerIsNoOp ==
    \A c \in DOMAIN sync_configs :
        Cardinality({i \in QueuedSyncs : task_queue[i].config_id = c}) +
        Cardinality({w \in busy_workers : w.config_id = c}) <= 1

\* C7: of the enqueue attempts for distinct configs made while no task is
\* active, those beyond max_concurrent_tasks are dropped: the configs admitted
\* (queued or active) never number more than max_concurrent_tasks.
C7_ExcessAttemptsDropped ==
    Cardinality({task_queue[i].config_id : i \in QueuedSyncs}
                \cup DOMAIN active_tasks) <= max_concurrent_tasks

\* the history rows of config c
RowsOf(c) == {i \in 1..Len(sync_history) : sync_history[i].config_id = c}

\* C11: every run has exactly one history row: with no change made to the
\* trees, unchanged_runs counts the runs of a config whose sync_config call
\* returned, Executing those in progress, and the rows of the config number
\* as many as its runs.
C11_OneRowPerRun ==
    \A c \in DOMAIN sync_configs :
        Cardinality(RowsOf(c)) = unchanged_runs[c] + Executing(c)

(* ------------------------------------------------------------------ *)
(* trigger_sync called from a thread of its own (the UI's executor, a    *)
(* thread the monitor spawned) while other triggers are at work          *)
(* ------------------------------------------------------------------ *)
\* a thread enters trigger_sync(c): sync_config adds its 'running' row
TriggerBegins(c) ==
    /\ c \in DOMAIN sync_configs
    /\ Len(sync_history) < MaxSchedHistory
    /\ sync_history' = Append(sync_history, HistoryRow(c, "running"))
    /\ callers' = callers \cup
           {[config_id |-> c, history_id |-> Len(sync_history) + 1]}
    /\ UNCHANGED <<sync_configs, src, dst, file_states, sync_stats, last_return,
                   engine_wrote, unchanged_runs>>
    /\ UNCHANGED <<schedVars, monVars, regVars>>

\* the sync_config call of thread t does its work and returns
TriggerReturns(t) ==
    /\ t \in callers
    /\ \E in \in RunInputs(t.config_id) :
        LET c   == t.config_id
            out == SyncOutcome(c, t.history_id, sync_history, dst[c],
                               file_states,
                               sync_stats[sync_configs[c].target_type],
                               in.connectOk, in.failPut, in.failDel, in.putTime)
        IN  ApplyRun(c, out, out.history)
    /\ callers' = callers \ {t}
    /\ UNCHANGED <<schedVars, monVars, regVars>>

InitTrig ==
    /\ \E tt \in {"local", "s3"} :
          FreshStore(Configs, [target_type |-> tt, delete_missing |-> TRUE],
                     EmptyDir)
    /\ SchedulerStarted(Configs)

NextTrig ==
    \/ \E c \in Configs : TriggerBegins(c)
    \/ \E t \in callers : TriggerReturns(t)
    \/ \E c \in Configs : ScheduleFires(c)
    \/ WorkerTakesTask
    \/ \E w \in busy_workers : WorkerFinishes(w)
    \/ \E c \in Configs, f \in FileVals({1}, {0}) : WriteSource(c, "a", f)
    \/ \E c \in Configs : RemoveSource(c, "a")

SpecTrig == InitTrig /\ [][NextTrig]_vars

(* ------------------------------------------------------------------ *)
(* Specification of the runs' history rows: one local config run by the  *)
(* scheduler's worker and by trigger threads; every sync_config call     *)
(* that was entered returns or raises                                    *)
(* ------------------------------------------------------------------ *)
InitRows ==
    /\ FreshStore(Configs, [target_type |-> "local", delete_missing |-> TRUE],
                  EmptyDir)
    /\ SchedulerStarted(Configs)

WorkerEnds == \E w \in busy_workers : WorkerFinishes(w) \/ WorkerRaises(w)

ThreadEnds == \E t \in callers : TriggerReturns(t)

NextRows ==
    \/ \E c \in Configs : ScheduleFires(c)
    \/ WorkerTakesTask
    \/ \E w \in busy_workers : WorkerFinishes(w)
    \/ \E w \in busy_workers : WorkerRaises(w)
    \/ \E c \in Configs : TriggerBegins(c)
    \/ \E t \in callers : TriggerReturns(t)
    \/ Tick
    \/ \E c \in Configs : WriteSource(c, "a", FileB)
    \/ \E c \in Configs : RemoveSource(c, "a")

SpecRows ==
    /\ InitRows
    /\ [][NextRows]_vars
    /\ WF_vars(WorkerEnds)
    /\ WF_vars(ThreadEnds)

\* the ids a history row can have
HistoryIds == 1..(MaxSchedHistory + 1)

\* row i exists and says running / says something else
RowRunning(i) ==
    IF i <= Len(sync_history) THEN sync_history[i].status = "running" ELSE FALSE

RowFinal(i) ==
    IF i <= Len(sync_history) THEN sync_history[i].status # "running" ELSE FALSE

\* C12: every history row created with status running is eventually given a
\* final status, the sync_config call of its run returning or raising.
C12_RunningRowFinalized ==
    \A i \in HistoryIds : RowRunning(i) ~> RowFinal(i)

\* C25: a worker that takes a task registers the config in active_tasks
\* before the run of sync_config does anything; when it ends the handling
\* of the task, the run having returned or raised, the history holds the
\* outcome and the config is out of active_tasks.
C25_RegisteredAroundRun ==
    [][/\ \A w \in busy_workers' \ busy_workers :
              /\ w.config_id \in DOMAIN active_tasks'
              /\ unchanged_runs' = unchanged_runs
              /\ dst' = dst
       /\ \A w \in busy_workers \ busy_workers' :
              /\ w.config_id \notin DOMAIN active_tasks'
              /\ \/ sync_history'[w.history_id].status \in {"completed", "failed"}
                 \/ /\ Len(sync_history') = Len(sync_history) + 1
                    /\ sync_history'[Len(sync_history')] =
                           HistoryRow(w.config_id, "failed")]_vars

\* a scheduled run has ended with its row completed and no task is active
C25_Witness ==
    /\ busy_workers = {}
    /\ DOMAIN active_tasks = {}
    /\ \E i \in 1..Len(sync_history) : sync_history[i].status = "completed"

(* ------------------------------------------------------------------ *)
(* FileMonitor                                                          *)
(* ------------------------------------------------------------------ *)
\* the paths of the events of a watched tree, as os.path.relpath gives them
\* from the watched root: a file, a dotfile, a file in a dot-directory and
\* a file outside the root
TreePaths == {"a", ".h", ".d/a", "../x"}

\* the paths below the watched root
InsidePaths == {"a", ".h", ".d/a"}

\* dest_path of an event that is not a move (None)
NoDest == ""

\* os.path.basename
Basename(p) ==
    CASE p = ".d/a" -> "a"
      [] p = "../x" -> "x"
      [] OTHER -> p

\* str.startswith('.')
StartsWithDot(name) == name \in {".h", ".d/a", "../x"}

\* str.startswith('..'): never
StartsWithDotDotNever(name) == FALSE

\* str.startswith('..')
StartsWithDotDot(name) == name \in {"../x"}

\* _on_file_event: the observer's callback puts the event into the queue
Event(type, c, p) ==
    [type |-> type, src_path |-> p, dest_path |-> NoDest, config_id |-> c,
     timestamp |-> now]

\* ... and a moved event has the destination path too
MovedEvent(c, p, q) ==
    [type |-> "moved", src_path |-> p, dest_path |-> q, config_id |-> c,
     timestamp |-> now]

\* a function with key k set to value v
Put(f, k, v) == [x \in DOMAIN f \cup {k} |-> IF x = k THEN v ELSE f[x]]

\* is event e dropped as a repeat of its key: never
DebouncedNever(e) == FALSE

\* _handle_event_with_debounce: is event e dropped as a repeat of its key
Debounced(e) ==
    LET key == <<e.type, e.src_path>>
    IN  /\ key \in DOMAIN last_events
        /\ e.timestamp - last_events[key] < debounce_time

\* _handle_file_created / _handle_file_modified up to the decision: "gone"
\* (file missing), "wait" (size recorded) or "ready" (sync is due)
SizeVerdict(c, p) ==
    IF p \notin DOMAIN src[c] THEN "gone"
    ELSE IF src[c][p].size = 0 THEN "ready"
    ELSE IF <<c, p>> \in DOMAIN file_sizes
         THEN IF file_sizes[<<c, p>>] # src[c][p].size THEN "wait" ELSE "ready"
         ELSE "wait"

\* file_sizes after the handler looked at path p of config c: the size it
\* saw, kept also when the file is ready
SizesAfterKept(c, p) ==
    IF p \notin DOMAIN src[c] THEN file_sizes
    ELSE Put(file_sizes, <<c, p>>, src[c][p].size)

\* file_sizes after the handler looked at path p of config c
SizesAfter(c, p) ==
    LET k == <<c, p>>
    IN  IF p \notin DOMAIN src[c] THEN file_sizes
        ELSE IF SizeVerdict(c, p) = "ready"
        THEN Restrict(file_sizes, DOMAIN file_sizes \ {k})
        ELSE Put(file_sizes, k, src[c][p].size)

\* the worker thread after an exception met while handling an event:
\* ended by it
AfterExceptionDead == "dead"

\* ... after an exception: _handle_file_created, _handle_event,
\* _handle_event_with_debounce and _process_events each catch Exception and
\* log it, and the loop goes on
AfterException == "caught"

\* where handling an event can meet an exception: nowhere, in
\* get_sync_config (_handle_event), in the FileState call of the handler
\* (update_file_state, delete_file_state), or in its add_sync_history
HandlerFaults == {"none", "config", "state", "history"}

\* file_states without the row of (c, p): delete_file_state
WithoutState(states, c, p) == Restrict(states, DOMAIN states \ {<<c, p>>})

\* file_states with a 'pending' row for file p of config c: update_file_state
WithPending(states, c, p) ==
    Put(states, <<c, p>>, [file_hash |-> NoHash,
                           modified_time |-> src[c][p].mtime,
                           sync_status |-> "pending"])

\* a handler that ends before it touched anything
Untouched ==
    [sizes |-> file_sizes, states |-> file_states, marker |-> FALSE,
     raised |-> FALSE]

\* the last part of every handler, states being the FileState rows it
\* wants: the FileState call, add_sync_history('pending'), the sync thread
Announce(sizes, states, f) ==
    IF f = "state"
    THEN [sizes |-> sizes, states |-> file_states, marker |-> FALSE,
          raised |-> TRUE]
    ELSE IF f = "history"
    THEN [sizes |-> sizes, states |-> states, marker |-> FALSE,
          raised |-> TRUE]
    ELSE [sizes |-> sizes, states |-> states, marker |-> TRUE,
          raised |-> FALSE]

\* _handle_event and the handler of the event's type, for an event e that
\* passed the debounce, under fault f: the size tracking and the FileState
\* rows it leaves, whether it wrote the 'pending' history marker and started
\* the sync thread, and whether it raised
Handling(e, f) ==
    LET c == e.config_id
        p == e.src_path
        q == e.dest_path
    IN  IF f = "config" THEN [Untouched EXCEPT !.raised = TRUE]
        ELSE IF c \notin DOMAIN sync_configs THEN Untouched
        ELSE IF StartsWithDotDot(p) THEN Untouched
        ELSE IF e.type \in {"created", "modified"}
        THEN IF SizeVerdict(c, p) = "ready"
             THEN Announce(SizesAfter(c, p), WithPending(file_states, c, p), f)
             ELSE [Untouched EXCEPT !.sizes = SizesAfter(c, p)]
        ELSE IF e.type = "deleted"
        THEN Announce(file_sizes, WithoutState(file_states, c, p), f)
        ELSE IF q = NoDest \/ StartsWithDotDot(q) THEN Untouched
        ELSE Announce(file_sizes,
                      IF q \in DOMAIN src[c]
                      THEN WithPending(WithoutState(file_states, c, p), c, q)
                      ELSE WithoutState(file_states, c, p),
                      f)

\* does handling the event at the head of the queue under fault f raise
Raises(f) ==
    /\ ~Debounced(Head(event_queue))
    /\ Handling(Head(event_queue), f).raised

\* _process_events takes the next event: debounce, the handler of its type,
\* and when the handler gets that far the 'pending' history row and a
\* thread that runs sync_callback(config_id), which enters sync_config.  An
\* exception on the way ends the handling of this event where it stands
MonitorHandles ==
    /\ mon_worker # "dead"
    /\ event_queue # <<>>
    /\ \E f \in HandlerFaults :
        LET e == Head(event_queue)
            c == e.config_id
            h == Handling(e, f)
        IN  /\ IF Debounced(e)
               THEN UNCHANGED <<last_events, file_sizes, file_states,
                                sync_history, callers>>
               ELSE /\ last_events' = Put(last_events, <<e.type, e.src_path>>,
                                          e.timestamp)
                    /\ file_sizes' = h.sizes
                    /\ file_states' = h.states
                    /\ IF h.marker
                       THEN /\ sync_history' = sync_history \o
                                   <<HistoryRow(c, "pending"),
                                     HistoryRow(c, "running")>>
                            /\ callers' = callers \cup
                                   {[config_id |-> c,
                                     history_id |-> Len(sync_history) + 2]}
                       ELSE UNCHANGED <<sync_history, callers>>
            /\ mon_worker' = IF Raises(f) THEN AfterException
                             ELSE IF mon_worker = "caught" /\ ~Debounced(e)
                             THEN "resumed"
                             ELSE mon_worker
            /\ last_outcome' = IF Debounced(e) THEN "debounced"
                               ELSE IF Raises(f) THEN "raised"
                               ELSE "handled"
    /\ event_queue' = Tail(event_queue)
    /\ UNCHANGED <<sync_configs, src, dst, sync_stats, last_return,
                   engine_wrote, unchanged_runs>>
    /\ UNCHANGED <<schedVars, regVars>>

\* add_watch bound a watch to config c: its handler reports events as c's
Watched(c) == \E d \in DOMAIN observers : observers[d] = c

\* a program writes file p of the watched source tree of config c in pieces:
\* it creates the file with its first byte ...
WriterCreates(c, p) ==
    /\ Watched(c)
    /\ p \notin DOMAIN src[c]
    /\ Len(event_queue) < MaxEventQueue
    /\ src' = [src EXCEPT ![c] = Put(src[c], p, [size |-> 1, data |-> 0, mtime |-> now])]
    /\ event_queue' = Append(event_queue, Event("created", c, p))
    /\ unchanged_runs' = [unchanged_runs EXCEPT ![c] = 0]
    /\ UNCHANGED <<sync_configs, dst, file_states, sync_history, sync_stats,
                   last_return, engine_wrote>>
    /\ UNCHANGED <<schedVars, callers, last_events, file_sizes, mon_worker,
                   last_outcome, regVars>>

\* ... appends to it ...
WriterAppends(c, p) ==
    /\ Watched(c)
    /\ p \in DOMAIN src[c]
    /\ src[c][p].size < MaxFileSize
    /\ Len(event_queue) < MaxEventQueue
    /\ src' = [src EXCEPT ![c][p] = [size |-> @.size + 1, data |-> 0, mtime |-> now]]
    /\ event_queue' = Append(event_queue, Event("modified", c, p))
    /\ unchanged_runs' = [unchanged_runs EXCEPT ![c] = 0]
    /\ UNCHANGED <<sync_configs, dst, file_states, sync_history, sync_stats,
                   last_return, engine_wrote>>
    /\ UNCHANGED <<schedVars, callers, last_events, file_sizes, mon_worker,
                   last_outcome, regVars>>

\* ... and, the file complete, the observer reports further modified events
\* that leave its size as it is
WriterTouches(c, p) ==
    /\ Watched(c)
    /\ p \in DOMAIN src[c]
    /\ src[c][p].size = MaxFileSize
    /\ Len(event_queue) < MaxEventQueue
    /\ event_queue' = Append(event_queue, Event("modified", c, p))
    /\ UNCHANGED syncVars
    /\ UNCHANGED <<schedVars, callers, last_events, file_sizes, mon_worker,
                   last_outcome, regVars>>

\* time passes: one debounce time
DebounceTick ==
    /\ now < MaxDebounceTicks * debounce_time
    /\ now' = now + debounce_time
    /\ UNCHANGED <<running, task_queue, active_tasks, idle_workers,
                   busy_workers, jobs, due, starts>>
    /\ UNCHANGED <<syncVars, callers, monVars, regVars>>

\* the sync runs the monitor asked for
Triggers == {i \in 1..Len(sync_history) : sync_history[i].status = "pending"}

(* ------------------------------------------------------------------ *)
(* Specification of the monitor: one file of a watched local source     *)
(* written once                                                         *)
(* ------------------------------------------------------------------ *)
InitWrite ==
    /\ FreshStore(Configs, [target_type |-> "local", delete_missing |-> TRUE],
                  EmptyDir)
    /\ ServicesIdle
    /\ Registered([d \in {"p"} |-> 1], NoSchedules)

NextWrite ==
    \/ \E c \in Configs : WriterCreates(c, "a")
    \/ \E c \in Configs : WriterAppends(c, "a")
    \/ \E c \in Configs : WriterTouches(c, "a")
    \/ MonitorHandles
    \/ \E t \in callers : TriggerReturns(t)
    \/ DebounceTick

SpecWrite == InitWrite /\ [][NextWrite]_vars

(* ------------------------------------------------------------------ *)
(* Specification of the monitor's worker: the events of one file that   *)
(* may start empty, with exceptions in the handlers, the worker thread  *)
(* taking every event it is given                                       *)
(* ------------------------------------------------------------------ *)
\* a program creates file p of the watched source tree of config c empty
WriterCreatesEmpty(c, p) ==
    /\ Watched(c)
    /\ p \notin DOMAIN src[c]
    /\ Len(event_queue) < MaxEventQueue
    /\ src' = [src EXCEPT ![c] = Put(src[c], p, [size |-> 0, data |-> 0, mtime |-> now])]
    /\ event_queue' = Append(event_queue, Event("created", c, p))
    /\ unchanged_runs' = [unchanged_runs EXCEPT ![c] = 0]
    /\ UNCHANGED <<sync_configs, dst, file_states, sync_history, sync_stats,
                   last_return, engine_wrote>>
    /\ UNCHANGED <<schedVars, callers, last_events, file_sizes, mon_worker,
                   last_outcome, regVars>>

NextEvents ==
    \/ \E c \in Configs : WriterCreatesEmpty(c, "a")
    \/ \E c \in Configs : WriterCreates(c, "a")
    \/ \E c \in Configs : WriterAppends(c, "a")
    \/ \E c \in Configs : WriterTouches(c, "a")
    \/ MonitorHandles
    \/ \E t \in callers : TriggerReturns(t)
    \/ DebounceTick

SpecEvents == InitWrite /\ [][NextEvents]_vars /\ WF_vars(MonitorHandles)

\* a step in which the worker took the event at the head of the queue
TakesEvent == event_queue # <<>> /\ event_queue' = Tail(event_queue)

\* C18: an exception raised while the worker handles one event costs that
\* event alone: the worker thread never ends while the monitor runs, the
\* queue only ever loses the event at its head, and a full queue is always
\* taken from again, so the events behind a failing one reach the handlers.
C18_EventContained ==
    /\ [](mon_worker # "dead")
    /\ [][Len(event_queue') < Len(event_queue) => TakesEvent]_vars
    /\ (Len(event_queue) = MaxEventQueue) ~> (Len(event_queue) < MaxEventQueue)

\* the worker caught an exception and has handled a later event since
C18_Witness == mon_worker = "resumed" /\ last_outcome = "handled"

\* a step in which the monitor starts a sync of config c: the 'pending'
\* history row and the thread that runs the sync callback
GoesReady(c) ==
    /\ Len(sync_history') = Len(sync_history) + 2
    /\ sync_history'[Len(sync_history) + 1] = HistoryRow(c, "pending")
    /\ \E t \in callers' \ callers : t.config_id = c

\* a step that starts no sync
NoTrigger == sync_history' = sync_history /\ callers' = callers

\* the size-stability rule for the event at the head of the queue, the
\* file being there with size n
SizeStabilityStep ==
    LET e == Head(event_queue)
        c == e.config_id
        k == <<e.config_id, e.src_path>>
        n == src[c][e.src_path].size
    IN  IF n = 0
        THEN k \notin DOMAIN file_sizes' /\ GoesReady(c)
        ELSE IF k \notin DOMAIN file_sizes \/ file_sizes[k] # n
        THEN /\ k \in DOMAIN file_sizes'
             /\ file_sizes'[k] = n
             /\ NoTrigger
        ELSE k \notin DOMAIN file_sizes' /\ GoesReady(c)

\* C19: a created or modified event that is processed, the file having
\* size n: n = 0 clears the tracking entry of (config, path) and starts a
\* sync; n > 0 without an entry, or with an entry of another size, records
\* n and starts none; n > 0 with an entry of n clears it and starts a sync.
\* The entry is the same for both types of event.
C19_SizeStability ==
    [][IF TakesEvent /\ last_outcome' = "handled"
       THEN SizeStabilityStep
       ELSE TRUE]_vars

\* a modified event found the size a created event had recorded and
\* started the one sync of the file
C19_Witness ==
    /\ last_outcome = "handled"
    /\ mon_worker = "fresh"
    /\ Cardinality(Triggers) = 1
    /\ DOMAIN file_sizes = {}
    /\ DOMAIN last_events = {<<"created", "a">>, <<"modified", "a">>}
    /\ \E c \in Configs : "a" \in DOMAIN src[c] /\ src[c]["a"].size = 1

\* was the key of event e last processed less than debounce_time before it
WithinDebounce(e) ==
    /\ <<e.type, e.src_path>> \in DOMAIN last_events
    /\ e.timestamp - last_events[<<e.type, e.src_path>>] < debounce_time

\* C20: an event whose (type, path) key was last processed less than
\* debounce_time earlier is dropped with no effect on the size tracking,
\* the FileState rows, the history and the last processed times, and starts
\* no sync; so the processed times of one key are debounce_time apart.
C20_DebounceDrops ==
    [][/\ IF TakesEvent /\ WithinDebounce(Head(event_queue))
          THEN /\ UNCHANGED <<file_sizes, file_states, last_events>>
               /\ NoTrigger
          ELSE TRUE
       /\ \A k \in DOMAIN last_events :
              /\ k \in DOMAIN last_events'
              /\ \/ last_events'[k] = last_events[k]
                 \/ last_events'[k] - last_events[k] >= debounce_time]_vars

\* the worker dropped a modified event of a file whose last modified event
\* it had processed at the same time
C20_Witness ==
    /\ last_outcome = "debounced"
    /\ <<"modified", "a">> \in DOMAIN last_events
    /\ last_events[<<"modified", "a">>] = now

(* ------------------------------------------------------------------ *)
(* Specification of the monitor's events: files of a watched tree are   *)
(* created, touched, deleted and moved, dotfiles and paths outside the  *)
(* root among them; the syncs the monitor starts run on                 *)
(* ------------------------------------------------------------------ *)
\* _on_file_event: is the event put into the queue, its source path and,
\* for a move, its destination path having a basename without a leading dot
Queued(type, p, q) ==
    /\ ~StartsWithDot(Basename(p))
    /\ ~(type = "moved" /\ q # NoDest /\ StartsWithDot(Basename(q)))

\* the queue after the observer of config c called _on_file_event
Reported(e) ==
    IF Queued(e.type, e.src_path, e.dest_path)
    THEN Append(event_queue, e)
    ELSE event_queue

\* the events the model lets the observers report: the queue has room and
\* the number of events in all stays within its bound
MayReport ==
    /\ Len(event_queue) < MaxEventQueue
    /\ Cardinality(DOMAIN last_events) + Len(event_queue) < MaxTreeEvents

\* a program creates file p of the watched tree of config c with n bytes
TreeCreates(c, p, n) ==
    /\ Watched(c)
    /\ MayReport
    /\ p \in InsidePaths \ DOMAIN src[c]
    /\ src' = [src EXCEPT ![c] = Put(src[c], p, [size |-> n, data |-> 0, mtime |-> now])]
    /\ event_queue' = Reported(Event("created", c, p))
    /\ unchanged_runs' = [unchanged_runs EXCEPT ![c] = 0]
    /\ UNCHANGED <<sync_configs, dst, file_states, sync_history, sync_stats,
                   last_return, engine_wrote>>
    /\ UNCHANGED <<schedVars, callers, last_events, file_sizes, mon_worker,
                   last_outcome, regVars>>

\* ... writes it again with the same size
TreeTouches(c, p) ==
    /\ Watched(c)
    /\ MayReport
    /\ p \in DOMAIN src[c]
    /\ event_queue' = Reported(Event("modified", c, p))
    /\ UNCHANGED syncVars
    /\ UNCHANGED <<schedVars, callers, last_events, file_sizes, mon_worker,
                   last_outcome, regVars>>

\* ... deletes it
TreeDeletes(c, p) ==
    /\ Watched(c)
    /\ MayReport
    /\ p \in DOMAIN src[c]
    /\ src' = [src EXCEPT ![c] = Restrict(src[c], DOMAIN src[c] \ {p})]
    /\ event_queue' = Reported(Event("deleted", c, p))
    /\ unchanged_runs' = [unchanged_runs EXCEPT ![c] = 0]
    /\ UNCHANGED <<sync_configs, dst, file_states, sync_history, sync_stats,
                   last_return, engine_wrote>>
    /\ UNCHANGED <<schedVars, callers, last_events, file_sizes, mon_worker,
                   last_outcome, regVars>>

\* ... moves a file from p to q, one of them at least below the root
TreeMoves(c, p, q) ==
    /\ Watched(c)
    /\ MayReport
    /\ p # q
    /\ p \in InsidePaths \/ q \in InsidePaths
    /\ p \in InsidePaths => p \in DOMAIN src[c]
    /\ q \notin DOMAIN src[c]
    /\ LET file == IF p \in InsidePaths THEN src[c][p]
                   ELSE [size |-> 1, data |-> 0, mtime |-> now]
           left == Restrict(src[c], DOMAIN src[c] \ {p})
       IN  src' = [src EXCEPT ![c] = IF q \in InsidePaths
                                     THEN Put(left, q, file) ELSE left]
    /\ event_queue' = Reported(MovedEvent(c, p, q))
    /\ unchanged_runs' = [unchanged_runs EXCEPT ![c] = 0]
    /\ UNCHANGED <<sync_configs, dst, file_states, sync_history, sync_stats,
                   last_return, engine_wrote>>
    /\ UNCHANGED <<schedVars, callers, last_events, file_sizes, mon_worker,
                   last_outcome, regVars>>

NextTree ==
    \/ \E c \in Configs, p \in TreePaths, n \in {0, 1} : TreeCreates(c, p, n)
    \/ \E c \in Configs, p \in TreePaths : TreeTouches(c, p)
    \/ \E c \in Configs, p \in TreePaths : TreeDeletes(c, p)
    \/ \E c \in Configs, p \in TreePaths, q \in TreePaths : TreeMoves(c, p, q)
    \/ MonitorHandles

SpecTree == InitWrite /\ [][NextTree]_vars /\ WF_vars(MonitorHandles)

\* has path p a component below the watched root that begins with a dot
HasDotComponent(p) == p \in {".h", ".d/a"}

\* C21: an event whose source path, or destination path for a move, is a
\* dotfile or lies in a dot-directory makes the monitor write no FileState
\* row, append no history row and start no sync.
C21_DotPathsIgnored ==
    [][IF /\ TakesEvent
          /\ \/ HasDotComponent(Head(event_queue).src_path)
             \/ HasDotComponent(Head(event_queue).dest_path)
       THEN file_states' = file_states /\ NoTrigger
       ELSE TRUE]_vars

\* is path p outside the watched root
OutsideRoot(p) == p \in TreePaths \ InsidePaths

\* C22: a moved event whose source path or destination path is outside the
\* watched root is rejected: no FileState row is removed or written, no
\* history row is appended and no sync is started.
C22_OutsideMoveRejected ==
    [][IF /\ TakesEvent
          /\ Head(event_queue).type = "moved"
          /\ \/ OutsideRoot(Head(event_queue).src_path)
             \/ OutsideRoot(Head(event_queue).dest_path)
       THEN file_states' = file_states /\ NoTrigger
       ELSE TRUE]_vars

\* the one event the handlers saw, without raising, was the move of file a,
\* which left the tree, and nothing was written
C22_Witness ==
    /\ last_outcome = "handled"
    /\ DOMAIN last_events = {<<"moved", "a">>}
    /\ \A c \in Configs : DOMAIN src[c] = {}
    /\ sync_history = <<>>
    /\ DOMAIN file_states = {}

\* the path an event is about: where the file is after it
AffectedPath(e) == IF e.type = "moved" THEN e.dest_path ELSE e.src_path

\* the step wrote the 'pending' history marker of config c
MarkerWritten(c) ==
    /\ Len(sync_history') > Len(sync_history)
    /\ sync_history'[Len(sync_history) + 1] = HistoryRow(c, "pending")

\* C23: when the monitor finds an event ready it writes the 'pending'
\* FileState row of the path, then the 'pending' history marker, then
\* starts the sync in a thread of its own: a started sync has its marker, a
\* marker has its FileState row, and the worker goes on taking events
\* while the syncs it started run.
C23_ReadyOrder ==
    /\ [][IF TakesEvent
          THEN LET e == Head(event_queue)
                   k == <<e.config_id, AffectedPath(e)>>
               IN  /\ callers' # callers => MarkerWritten(e.config_id)
                   /\ MarkerWritten(e.config_id) =>
                          /\ k \in DOMAIN file_states'
                          /\ file_states'[k].sync_status = "pending"
          ELSE TRUE]_vars
    /\ (Len(event_queue) = MaxEventQueue) ~> (Len(event_queue) < MaxEventQueue)

\* C8: a file written in growing pieces and then reported with its size
\* unchanged makes the monitor trigger at most one sync for that write.
C8_OneTriggerPerWrite == Cardinality(Triggers) <= 1

(* ------------------------------------------------------------------ *)
(* Claims about the reconciler                                          *)
(* ------------------------------------------------------------------ *)
\* a step in which a run of config c returns: only a run adds one to the
\* config's count of runs since its last change
RunStep(c) == unchanged_runs'[c] = unchanged_runs[c] + 1

\* a step in which a run of config c got as far as the manager's push pass
PushRan(c) ==
    /\ RunStep(c)
    /\ \/ sync_configs[c].target_type = "local"
       \/ Len(sync_history') = Len(sync_history) + 2

\* destination entries of config c that have no source file
Orphans(c) == DOMAIN dst[c] \ DOMAIN src[c]

\* ... and of those the ones with a FileState row under config c
TrackedOrphans(c) == {q \in Orphans(c) : <<c, q>> \in DOMAIN file_states}

\* the destination entries a step removes
Removed(c) == DOMAIN dst[c] \ DOMAIN dst'[c]

\* the safe-delete rule of a push run of config c
SafeDeleteStep(c) ==
    /\ Removed(c) \subseteq TrackedOrphans(c)
    /\ \A q \in Orphans(c) \ TrackedOrphans(c) :
          q \in DOMAIN dst'[c] /\ dst'[c][q] = dst[c][q]
    /\ sync_stats'[sync_configs[c].target_type].deleted
          = Cardinality(Removed(c) \cap TrackedOrphans(c))

\* C1: in a push run with delete_missing on a local, FTP or SMB target, a
\* destination entry without a source file is deleted only if a FileState row
\* for its path exists under this config; every other such entry is left
\* untouched and is not counted in deleted.
C1_SafeDeleteChecked ==
    [][\A c \in Configs :
          (PushRan(c) /\ sync_configs[c].delete_missing
             /\ sync_configs[c].target_type \in {"local", "ftp", "smb"})
          => SafeDeleteStep(c)]_vars

\* a run of a row-checking backend has just deleted the tracked "a" and left
\* the untracked "b" of the destination alone
C1_Witness ==
    \E c \in Configs :
        /\ sync_configs[c].target_type \in {"ftp", "smb"}
        /\ sync_configs[c].delete_missing
        /\ unchanged_runs[c] = 1
        /\ sync_stats[sync_configs[c].target_type].deleted = 1
        /\ DOMAIN dst[c] = {"b"}
        /\ DOMAIN src[c] = {}

\* C2: whatever runs and changes came before, a run deletes a destination
\* file only if an earlier run of the same config wrote that file (stated for
\* the backends whose delete pass consults file_states).
C2_DeletesOnlyEngineWritten ==
    [][\A c \in Configs :
          (RunStep(c) /\ DeleteChecksFileState(sync_configs[c].target_type))
          => \A q \in Removed(c) : <<c, q>> \in engine_wrote]_vars

\* C3: the safe-delete rule holds for the delete pass of the S3, Google
\* Drive and Dropbox backends.
C3_SafeDeleteRemote ==
    [][\A c \in Configs :
          (PushRan(c) /\ sync_configs[c].delete_missing
             /\ sync_configs[c].target_type \in {"s3", "gdrive", "dropbox"})
          => SafeDeleteStep(c)]_vars

C10_RemovedSourceIsDeleted ==
    [][\A c \in Configs : \A p \in Paths :
          (/\ PushRan(c)
           /\ DeleteChecksFileState(sync_configs[c].target_type)
           /\ sync_configs[c].delete_missing
           /\ p \in TrackedOrphans(c)
           /\ file_states[<<c, p>>].sync_status = "synced"
           /\ sync_stats'[sync_configs[c].target_type].errors = 0)
          => /\ p \notin DOMAIN dst'[c]
             /\ sync_stats'[sync_configs[c].target_type].deleted = 1
             /\ <<c, p>> \notin DOMAIN file_states']_vars

\* a local run has just deleted the copy of "a" that an earlier run made
C10_Witness ==
    \E c \in Configs :
        /\ sync_configs[c].target_type = "local"
        /\ sync_configs[c].delete_missing
        /\ unchanged_runs[c] = 1
        /\ sync_history[1].status = "success"
        /\ Len(sync_history) = 2
        /\ sync_history[2].status = "success"
        /\ sync_stats["local"].deleted = 1
        /\ "a" \notin DOMAIN dst[c]
        /\ <<c, "a">> \notin DOMAIN file_states

\* the status values a history row may carry
HistoryStatuses == {"running", "completed", "failed", "timeout"}

\* C13: when a run that reached its sync manager ends, the run's history
\* row says completed if the run's error counter is 0 and failed otherwise,
\* sync_config returns True exactly when it says completed, and every
\* history row carries one of running, completed, failed, timeout.
C13_FinalStatus ==
    [][\A c \in DOMAIN sync_configs :
          PushRan(c) =>
              LET hid  == Len(sync_history) + 1
                  st   == sync_history'[hid].status
                  errs == sync_stats'[sync_configs[c].target_type].errors
              IN  /\ st = IF errs = 0 THEN "completed" ELSE "failed"
                  /\ last_return'.success = (st = "completed")
                  /\ \A i \in 1..Len(sync_history') :
                         sync_history'[i].status \in HistoryStatuses]_vars

(* ------------------------------------------------------------------ *)
(* Specification of the plan of one run: source and destination trees   *)
(* over both paths, runs with I/O errors on any of the files            *)
(* ------------------------------------------------------------------ *)
PlanFiles == {FileB, [size |-> 2, data |-> 0, mtime |-> 0]}

PlanTrees ==
    UNION {[P -> PlanFiles] : P \in SUBSET Paths}

InitPlan ==
    /\ \E tt \in TargetTypes, dm \in BOOLEAN, S \in PlanTrees, D \in PlanTrees :
          /\ sync_configs = [c \in Configs |->
                                [target_type |-> tt, delete_missing |-> dm]]
          /\ src = [c \in Configs |-> S]
          /\ dst = [c \in Configs |-> D]
    /\ file_states = [k \in {} |-> 0]
    /\ sync_history = <<>>
    /\ sync_stats = InitStats
    /\ last_return = NoReturn
    /\ engine_wrote = {}
    /\ unchanged_runs = [c \in Configs |-> 0]
    /\ SchedulerIdle

NextPlan ==
    \/ \E c \in Configs : TriggerSync(c)
    \/ \E c \in Configs, p \in Paths : RemoveSource(c, p)

SpecPlan == InitPlan /\ [][NextPlan]_vars

\* the source files of config c a run has to transfer
Needed(c) ==
    {p \in DOMAIN src[c] :
        IF p \in DOMAIN dst[c]
        THEN NeedUpdate(sync_configs[c].target_type, src[c][p], dst[c][p],
                        GetFileStates(file_states, c), p)
        ELSE TRUE}

\* the destination entries of config c a run has to delete
Doomed(c) ==
    IF sync_configs[c].delete_missing
    THEN {q \in Orphans(c) :
             DeleteAuthorized(sync_configs[c].target_type,
                              GetFileStates(file_states, c), q)}
    ELSE {}

ConnectingTypes == {"ftp", "smb", "s3", "gdrive"}

\* a step in which a run of config c ended on a refused connection
ConnectFailed(c) ==
    /\ RunStep(c)
    /\ sync_configs[c].target_type \in ConnectingTypes
    /\ ~PushRan(c)

\* C15: a run whose connection or authentication is refused aborts before
\* any transfer: sync_config returns False, the run's history row ends as
\* failed, and no FileState row, destination entry or counter changes.
C15_ConnectFailureAborts ==
    [][\A c \in DOMAIN sync_configs :
          ConnectFailed(c) =>
              /\ last_return' = [config_id |-> c, success |-> FALSE]
              /\ sync_history' = Append(sync_history, HistoryRow(c, "failed"))
              /\ file_states' = file_states
              /\ dst' = dst
              /\ sync_stats' = sync_stats]_vars

\* a first run synced file "a", the second run could not connect: its row
\* says failed though no file met an error, and the FileState row is there
C15_Witness ==
    \E c \in DOMAIN sync_configs :
        /\ sync_configs[c].target_type \in ConnectingTypes
        /\ unchanged_runs[c] = 2
        /\ last_return = [config_id |-> c, success |-> FALSE]
        /\ Len(sync_history) = 3
        /\ sync_history[3].status = "failed"
        /\ sync_stats[sync_configs[c].target_type].errors = 0
        /\ <<c, "a">> \in DOMAIN file_states

\* C27: within one run the FileState row of a path is written only when
\* the transfer of the path succeeded, so that the destination holds the
\* path, and is removed only when the delete of the destination entry
\* succeeded, so that the destination holds it no more; a path whose
\* transfer or delete failed keeps the row it had.
C27_StateFollowsTransfer ==
    [][\A c \in DOMAIN sync_configs :
         IF PushRan(c)
         THEN \A p \in Paths :
                LET k == <<c, p>>
                IN  /\ (k \in DOMAIN file_states' /\ k \notin DOMAIN file_states)
                         => p \in DOMAIN dst'[c]
                    /\ (k \in DOMAIN file_states /\ k \notin DOMAIN file_states')
                         => (p \in DOMAIN dst[c] /\ p \notin DOMAIN dst'[c])
         ELSE TRUE]_vars

(* ------------------------------------------------------------------ *)
(* Specification of the update decision: one source file, any           *)
(* destination entry and any stored FileState row for it                 *)
(* ------------------------------------------------------------------ *)
DecideFiles == FileVals({1, 2}, {0, 1})

\* the rows _update_file_state_in_db can have left for a path under target
\* type tt: of any earlier version of the file
DecideRows(tt) ==
    [file_hash : IF tt = "local" THEN {Hash(f) : f \in DecideFiles}
                 ELSE {NoHash},
     modified_time : Mtimes,
     sync_status : {"synced"}]

InitDecide ==
    /\ \E tt \in TargetTypes, dm \in BOOLEAN, s \in DecideFiles :
          /\ sync_configs = [c \in Configs |->
                                [target_type |-> tt, delete_missing |-> dm]]
          /\ src = [c \in Configs |-> [p \in {"a"} |-> s]]
          /\ \/ dst = [c \in Configs |-> EmptyDir]
             \/ \E d \in DecideFiles :
                    dst = [c \in Configs |-> [p \in {"a"} |-> d]]
          /\ \/ file_states = [k \in {} |-> 0]
             \/ \E row \in DecideRows(tt) :
                    file_states = [k \in {<<c, "a">> : c \in Configs} |-> row]
    /\ sync_history = <<>>
    /\ sync_stats = InitStats
    /\ last_return = NoReturn
    /\ engine_wrote = {}
    /\ unchanged_runs = [c \in Configs |-> 0]
    /\ SchedulerIdle

NextDecide == \E c \in Configs : TriggerSync(c)

SpecDecide == InitDecide /\ [][NextDecide]_vars

\* does the stored FileState row disagree with the source file as it is
\* now: in the fingerprint the local manager stores, in the mtime, by more
\* than the tolerance, for a remote manager
StoredDisagrees(tt, row, s) ==
    IF tt = "local" THEN row.file_hash # Hash(s)
    ELSE Abs(row.modified_time - s.mtime) > MtimeTolerance

\* the action planned for source path p of config c
Planned(c, p) ==
    LET tt == sync_configs[c].target_type
        s  == src[c][p]
    IN  IF p \notin DOMAIN dst[c] THEN "create"
        ELSE IF \/ s.size # dst[c][p].size
                \/ s.mtime > dst[c][p].mtime
                \/ HasFingerprint(tt) /\ Hash(s) # Hash(dst[c][p])
                \/ /\ <<c, p>> \in DOMAIN file_states
                   /\ StoredDisagrees(tt, file_states[<<c, p>>], s)
        THEN "update"
        ELSE "skip"

\* the source paths of config c with planned action a
PlannedFor(c, a) == {p \in DOMAIN src[c] : Planned(c, p) = a}

ReloadConfigs == {1, 2}

\* the schedule settings a config may carry; "" stands for None
ScheduleSettings ==
    {Schedule("", ""), Schedule("interval", "5"), Schedule("daily", "10:00")}

\* the settings the user may save for config c: config 1 with any source
\* directory and schedule, config 2 watching directory "q" and unscheduled
ConfigChoices(c) ==
    {[target_type |-> "local", delete_missing |-> TRUE,
      is_active |-> a, realtime_monitor |-> r, source_path |-> d,
      schedule_enabled |-> e, schedule_type |-> sch.type,
      schedule_value |-> sch.value] :
        a \in BOOLEAN, r \in BOOLEAN,
        d \in IF c = 1 THEN SourcePaths ELSE {"q"},
        e \in IF c = 1 THEN BOOLEAN ELSE {FALSE},
        sch \in IF c = 1 THEN ScheduleSettings ELSE {Schedule("", "")}}

\* a config just created: inactive, not monitored, not scheduled
IdleConfig ==
    [target_type |-> "local", delete_missing |-> TRUE,
     is_active |-> FALSE, realtime_monitor |-> FALSE, source_path |-> "q",
     schedule_enabled |-> FALSE, schedule_type |-> "", schedule_value |-> ""]

\* _sync_file_monitors, desired: the configs are read in order and a later
\* config with the same source_path takes the path over
DesiredWatches(cfgs) ==
    LET wants(c) == cfgs[c].realtime_monitor /\ cfgs[c].is_active
        paths == {cfgs[c].source_path : c \in {x \in DOMAIN cfgs : wants(x)}}
    IN  [d \in paths |->
            CHOOSE c \in DOMAIN cfgs :
                /\ wants(c) /\ cfgs[c].source_path = d
                /\ \A c2 \in DOMAIN cfgs :
                      (wants(c2) /\ cfgs[c2].source_path = d) => c2 <= c]

\* _sync_schedules, desired
DesiredSchedules(cfgs) ==
    LET wants(c) == /\ cfgs[c].is_active /\ cfgs[c].schedule_enabled
                    /\ cfgs[c].schedule_type # "" /\ cfgs[c].schedule_value # ""
    IN  [c \in {x \in DOMAIN cfgs : wants(x)} |->
            Schedule(cfgs[c].schedule_type, cfgs[c].schedule_value)]

\* a reload that tears every watch down
StaleWatchesAll(desired) == DOMAIN observers

\* _sync_file_monitors: the watches to remove
StaleWatches(desired) == DOMAIN observers \ DOMAIN desired

\* _sync_schedules: the schedules to add
MissingSchedules(desired) == DOMAIN desired \ DOMAIN schedules

\* a call reload_configuration makes: on a path (config 0) or on a config
\* (path "")
Call(op, path, config) == [op |-> op, path |-> path, config |-> config]

\* reload_configuration(initial_sync=False), as the UI calls it after every
\* edit and from its refresh button
Reload ==
    LET wDesired == DesiredWatches(sync_configs)
        wStale   == StaleWatches(wDesired)
        wKept    == Restrict(observers, DOMAIN observers \ wStale)
        wMissing == DOMAIN wDesired \ DOMAIN wKept
        wAdded   == wMissing \cap dirs          \* add_watch: os.path.exists
        sDesired == DesiredSchedules(sync_configs)
        sStale   == DOMAIN schedules \ DOMAIN sDesired
        sMissing == MissingSchedules(sDesired)
        sAdded   == IF running THEN sMissing ELSE {}
        sKept    == DOMAIN schedules \ (sStale \cup sAdded)
    IN  /\ observers' = [d \in DOMAIN wKept \cup wAdded |->
                            IF d \in wAdded THEN wDesired[d] ELSE wKept[d]]
        /\ schedules' = [c \in sKept \cup sAdded |->
                            IF c \in sAdded THEN sDesired[c] ELSE schedules[c]]
        /\ jobs' = (jobs \ sStale) \cup sAdded
        /\ due' = due \ (sStale \cup sAdded)
        \* remove_schedule writes the removal into the config
        /\ sync_configs' = [c \in DOMAIN sync_configs |->
                               IF c \in sStale
                               THEN [sync_configs[c] EXCEPT
                                        !.schedule_enabled = FALSE,
                                        !.schedule_type = "",
                                        !.schedule_value = ""]
                               ELSE sync_configs[c]]
        /\ reg_calls' = {Call("remove_watch", d, 0) : d \in wStale} \cup
                        {Call("add_watch", d, 0) : d \in wMissing} \cup
                        {Call("remove_schedule", "", c) : c \in sStale} \cup
                        {Call("add_schedule", "", c) : c \in sMissing}
        /\ quiet_reloads' = IF quiet_reloads < MaxQuietReloads
                            THEN quiet_reloads + 1 ELSE quiet_reloads
        /\ UNCHANGED <<src, dst, file_states, sync_history, sync_stats,
                       last_return, engine_wrote, unchanged_runs>>
        /\ UNCHANGED <<running, task_queue, active_tasks, idle_workers,
                       busy_workers, starts, now>>
        /\ UNCHANGED <<callers, monVars, dirs, clockVars, threadVars>>

\* the user saves config c with settings cfg (update_sync_config)
EditConfig(c, cfg) ==
    /\ c \in DOMAIN sync_configs
    /\ cfg # sync_configs[c]
    /\ sync_configs' = [sync_configs EXCEPT ![c] = cfg]
    /\ quiet_reloads' = 0
    /\ UNCHANGED <<src, dst, file_states, sync_history, sync_stats, last_return,
                   engine_wrote, unchanged_runs>>
    /\ UNCHANGED <<schedVars, callers, monVars, observers, schedules, dirs,
                   reg_calls, clockVars,
                   threadVars>>

\* the user creates / removes source directory d
MakeDir(d) ==
    /\ d \notin dirs
    /\ dirs' = dirs \cup {d}
    /\ UNCHANGED <<syncVars, schedVars, callers, monVars, observers, schedules,
                   quiet_reloads, reg_calls, clockVars,
                   threadVars>>

RemoveDir(d) ==
    /\ d \in dirs
    /\ dirs' = dirs \ {d}
    /\ UNCHANGED <<syncVars, schedVars, callers, monVars, observers, schedules,
                   quiet_reloads, reg_calls, clockVars,
                   threadVars>>

(* ------------------------------------------------------------------ *)
(* Specification of the registrations: the orchestrator started over    *)
(* two idle configs, the user edits them and reloads                    *)
(* ------------------------------------------------------------------ *)
InitReload ==
    /\ FreshStore(ReloadConfigs, IdleConfig, EmptyDir)
    /\ running = TRUE
    /\ task_queue = <<>>
    /\ active_tasks = [c \in {} |-> 0]
    /\ idle_workers = 1
    /\ busy_workers = {}
    /\ jobs = {}
    /\ due = {}
    /\ starts = 1
    /\ now = 0
    /\ callers = {}
    /\ MonitorIdle
    /\ Registered(NoWatches, NoSchedules)

NextReload ==
    \/ Reload
    \/ \E c \in ReloadConfigs : \E cfg \in ConfigChoices(c) : EditConfig(c, cfg)
    \/ MakeDir("p")
    \/ RemoveDir("p")

SpecReload == InitReload /\ [][NextReload]_vars

\* C16: after reload_configuration returns, the source directories existing,
\* the watches are the source paths of the active monitored configs, each
\* bound to its config, and the schedules are the (type, value) of the active
\* configs with a schedule enabled and set, whatever was edited before,
\* the schedule of an already registered config included.
C16_RegistrationsMatch ==
    [][(Reload /\ DOMAIN DesiredWatches(sync_configs) \subseteq dirs) =>
          /\ observers' = DesiredWatches(sync_configs')
          /\ schedules' = DesiredSchedules(sync_configs')]_vars

MonthlyValues == {"1,00:01", "2,00:01"}
CustomValues == {"00:00", "00:01"}

ClockSchedules ==
    {Schedule("monthly", v) : v \in MonthlyValues} \cup
    {Schedule("custom", v) : v \in CustomValues}

ClockTypes == {"monthly", "custom"}

\* "HH:MM" as the minute of the day: hour * 60 + minute
MinuteOf(hhmm) ==
    CASE hhmm = "00:00" -> 0
      [] hhmm = "00:01" -> 1

\* add_schedule, monthly: day, time_str = schedule_value.split(',')
MonthlyDay(value) ==
    CASE value = "1,00:01" -> 1
      [] value = "2,00:01" -> 2

MonthlyTime(value) ==
    CASE value = "1,00:01" -> "00:01"
      [] value = "2,00:01" -> "00:01"

\* add_schedule: the time of day the job of the schedule is registered at,
\* schedule.every().day.at(...)
JobTime(sch) ==
    IF sch.type = "monthly" THEN MonthlyTime(sch.value) ELSE "00:00"

\* datetime.now() at second t: hour and minute, as the minute of the day; the
\* clock reads 00:00 of the first day of a month of 31 days at second 0
MinuteOfDay(t) == (t \div 60) % 1440

\* datetime.now().day at second t
DayOfMonth(t) == ((t \div 86400) % 31) + 1

\* the next run of a job registered or run at second t for minute m of the
\* day: today if that time is still ahead, otherwise tomorrow
NextAt(t, m) ==
    LET today == (t \div 86400) * 86400 + m * 60
    IN  IF today > t THEN today ELSE today + 86400

\* a job that enqueues whenever it is run
CheckPassesAlways(sch, t) == TRUE

\* _check_monthly_sync / _check_custom_sync run at second t: whether the job
\* goes on to _enqueue_sync_task
CheckPasses(sch, t) ==
    IF sch.type = "monthly"
    THEN DayOfMonth(t) = MonthlyDay(sch.value)
    ELSE MinuteOfDay(t) = MinuteOf(sch.value)

\* what the run of a clock job did and when: "checked" without enqueueing,
\* or "enqueue" (it called _enqueue_sync_task)
JobLog(what, t) == [what |-> what, at |-> t]

\* the configs of schedules S whose job is checked against the clock
ClockJobs(S) == {c \in DOMAIN S : S[c].type \in ClockTypes}

\* _run_scheduler, schedule.run_pending(): the job of config c has come due
\* and is run
RunPending(c) ==
    /\ running
    /\ c \in DOMAIN next_run
    /\ next_run[c] <= now
    /\ LET sch   == schedules[c]
           fires == CheckPasses(sch, now)
       IN  /\ task_queue' = IF fires /\ MayEnqueue(c)
                            THEN Append(task_queue, SyncTask(c))
                            ELSE task_queue
           /\ job_log' = [x \in DOMAIN job_log \cup {c} |->
                             IF x = c
                             THEN JobLog(IF fires THEN "enqueue" ELSE "checked",
                                         now)
                             ELSE job_log[x]]
           /\ next_run' = [next_run EXCEPT
                              ![c] = NextAt(now, MinuteOf(JobTime(sch)))]
    /\ UNCHANGED <<running, active_tasks, idle_workers, busy_workers, jobs, due,
                   starts, now>>
    /\ UNCHANGED <<syncVars, callers, monVars, observers, schedules, dirs,
                   quiet_reloads, reg_calls, threadVars>>

\* a minute passes; the scheduler thread polls every second, so while the
\* scheduler runs no due job is left behind
MinutePasses ==
    /\ now + 60 < MaxClockDays * 86400
    /\ running => \A c \in DOMAIN next_run : next_run[c] > now
    /\ now' = now + 60
    /\ UNCHANGED <<running, task_queue, active_tasks, idle_workers,
                   busy_workers, jobs, due, starts>>
    /\ UNCHANGED <<syncVars, callers, monVars, regVars>>

\* main() in a new process: SyncOrchestrator.start() starts the scheduler and
\* calls reload_configuration(), which registers the desired watches and
\* schedules and runs the initial sync of the active configs (the store of
\* this specification holds one active config, so that is one run)
ProcessStarts ==
    /\ ~running
    /\ starts < MaxStarts
    /\ RunsStarted < MaxRuns
    /\ running' = TRUE
    /\ idle_workers' = 1
    /\ starts' = starts + 1
    /\ LET wDesired == DesiredWatches(sync_configs)
           wAdded   == DOMAIN wDesired \cap dirs
           sDesired == DesiredSchedules(sync_configs)
           clocked  == ClockJobs(sDesired)
       IN  /\ observers' = [d \in wAdded |-> wDesired[d]]
           /\ schedules' = sDesired
           /\ jobs' = DOMAIN sDesired
           /\ next_run' = [c \in clocked |->
                              NextAt(now, MinuteOf(JobTime(sDesired[c])))]
           /\ reg_calls' = {Call("add_watch", d, 0) : d \in DOMAIN wDesired} \cup
                           {Call("add_schedule", "", c) : c \in DOMAIN sDesired}
    /\ quiet_reloads' = 1
    /\ LET active == {c \in DOMAIN sync_configs : sync_configs[c].is_active}
       IN  \E c \in active :
              /\ active = {c}
              /\ \E in \in RunInputs(c) :
                    LET out == SyncConfigCall(c, in)
                    IN  ApplyRun(c, out, out.history)
    /\ UNCHANGED <<task_queue, active_tasks, busy_workers, due, now, callers,
                   monVars, dirs, job_log, threadVars>>

\* the process ends between runs: SyncOrchestrator.stop() on shutdown, and
\* what the process held in memory is gone
ProcessExits ==
    /\ running
    /\ busy_workers = {}
    /\ callers = {}
    /\ running' = FALSE
    /\ task_queue' = <<>>
    /\ active_tasks' = [c \in {} |-> 0]
    /\ idle_workers' = 0
    /\ jobs' = {}
    /\ due' = {}
    /\ observers' = NoWatches
    /\ schedules' = NoSchedules
    /\ reg_calls' = {}
    /\ next_run' = NoRuns
    /\ UNCHANGED <<busy_workers, starts, now, callers, monVars, dirs,
                   quiet_reloads, job_log, threadVars>>
    /\ UNCHANGED syncVars

(* ------------------------------------------------------------------ *)
(* Specification of the clock schedules: one active config with a       *)
(* monthly or custom schedule, the process starts and ends as minutes   *)
(* pass                                                                 *)
(* ------------------------------------------------------------------ *)
ClockConfigs == {1}

InitClock ==
    /\ \E sch \in ClockSchedules :
          FreshStore(ClockConfigs,
                     [IdleConfig EXCEPT !.is_active = TRUE,
                                        !.schedule_enabled = TRUE,
                                        !.schedule_type = sch.type,
                                        !.schedule_value = sch.value],
                     EmptyDir)
    /\ SchedulerIdle

NextClock ==
    \/ ProcessStarts
    \/ ProcessExits
    \/ MinutePasses
    \/ \E c \in ClockConfigs : RunPending(c)

SpecClock == InitClock /\ [][NextClock]_vars

\* C29: the job of a monthly(day_of_month, HH:MM) schedule is run only at
\* minute HH:MM, at most once a day, and calls _enqueue_sync_task on exactly
\* the runs where the day of the month is day_of_month; when minute HH:MM
\* begins with the scheduler running the job is due, and it is run before the
\* minute ends; a job is never run at any other time, so a tick missed while
\* the process was down is not made up.
C29_MonthlyTick ==
    [][\A c \in DOMAIN schedules :
          schedules[c].type = "monthly" =>
             LET v == schedules[c].value
                 m == MinuteOf(MonthlyTime(v))
                 logged == c \in DOMAIN job_log
                 ran == /\ c \in DOMAIN job_log'
                        /\ logged => job_log'[c] # job_log[c]
             IN  /\ ran =>
                        /\ job_log'[c].at = now
                        /\ MinuteOfDay(now) = m
                        /\ logged => job_log[c].at < now
                        /\ (job_log'[c].what = "enqueue") <=>
                              (DayOfMonth(now) = MonthlyDay(v))
                        /\ (job_log'[c].what = "enqueue") =>
                              (\E i \in 1..Len(task_queue') :
                                  task_queue'[i] = SyncTask(c))
                 /\ (now' # now /\ running /\ MinuteOfDay(now') = m) =>
                        next_run[c] = now'
                 /\ (now' # now /\ running) => next_run[c] > now
                 /\ (c \in DOMAIN schedules' /\ ~ran) =>
                        next_run'[c] = next_run[c]]_vars

\* the process was started a second time, the ticks of the first day were
\* missed or did not match, and the job enqueued on the matching day
C29_Witness ==
    /\ starts = 2
    /\ running
    /\ 1 \in DOMAIN schedules
    /\ schedules[1] = Schedule("monthly", "2,00:01")
    /\ 1 \in DOMAIN job_log
    /\ job_log[1] = JobLog("enqueue", 86400 + 60)
    /\ now > 86400 + 60

\* C30: the job of a custom(HH:MM) schedule calls _enqueue_sync_task only at
\* minute HH:MM, and when minute HH:MM begins with the scheduler running the
\* job is due and makes the call before the minute ends.
C30_CustomTick ==
    [][\A c \in DOMAIN schedules :
          schedules[c].type = "custom" =>
             LET v == schedules[c].value
                 m == MinuteOf(v)
                 logged == c \in DOMAIN job_log
                 ran == /\ c \in DOMAIN job_log'
                        /\ logged => job_log'[c] # job_log[c]
             IN  /\ (ran /\ job_log'[c].what = "enqueue") =>
                        MinuteOfDay(now) = m
                 /\ (ran /\ MinuteOfDay(now) = m) =>
                        job_log'[c].what = "enqueue"
                 /\ (now' # now /\ running /\ MinuteOfDay(now') = m) =>
                        next_run[c] = now']_vars

(* ------------------------------------------------------------------ *)
(* reload_configuration call by call: threads of the UI inside          *)
(* _sync_schedules, each add_schedule and remove_schedule call taking   *)
(* the scheduler's lock                                                 *)
(* ------------------------------------------------------------------ *)
ReloadThreads == {1, 2}

\* a thread inside _sync_schedules: the desired schedules it read, the
\* configs it has still to call remove_schedule and add_schedule for, and
\* where it is: "sync" between calls, "remove_schedule" inside the
\* remove_schedule call add_schedule makes
Reloader(pc, desired, stale, missing) ==
    [pc |-> pc, desired |-> desired, stale |-> stale, missing |-> missing]

\* the config the loop of a thread reaches next
NextConfig(S) == CHOOSE c \in S : \A c2 \in S : c <= c2

\* add_schedule found the config registered and calls remove_schedule with
\* the lock held: threading.Lock is not reentrant, the thread waits for the
\* lock it holds
NestedRemove(t, c) ==
    /\ sched_lock' = t
    /\ reloaders' = [reloaders EXCEPT ![t].pc = "remove_schedule"]
    /\ UNCHANGED <<schedules, sync_configs, jobs, due>>

\* reload_configuration(initial_sync=False) up to the snapshot of
\* _sync_schedules: _sync_file_monitors, the desired schedules, the
\* registered ids read under the lock
ReloadEnters(t) ==
    /\ t \notin DOMAIN reloaders
    /\ sched_lock = 0
    /\ LET wDesired == DesiredWatches(sync_configs)
           wStale   == StaleWatches(wDesired)
           wKept    == Restrict(observers, DOMAIN observers \ wStale)
           wAdded   == (DOMAIN wDesired \ DOMAIN wKept) \cap dirs
           sDesired == DesiredSchedules(sync_configs)
           existing == DOMAIN schedules
       IN  /\ observers' = [d \in DOMAIN wKept \cup wAdded |->
                               IF d \in wAdded THEN wDesired[d] ELSE wKept[d]]
           /\ reloaders' = [x \in DOMAIN reloaders \cup {t} |->
                               IF x = t
                               THEN Reloader("sync", sDesired,
                                             existing \ DOMAIN sDesired,
                                             DOMAIN sDesired \ existing)
                               ELSE reloaders[x]]
    /\ UNCHANGED <<syncVars, schedVars, callers, monVars, schedules, dirs,
                   quiet_reloads, reg_calls, clockVars, sched_lock, runVars>>

\* _sync_schedules: the next remove_schedule call of thread t
ReloadRemoves(t) ==
    /\ t \in DOMAIN reloaders
    /\ reloaders[t].pc = "sync"
    /\ reloaders[t].stale # {}
    /\ sched_lock = 0
    /\ LET c == NextConfig(reloaders[t].stale)
           found == c \in DOMAIN schedules
       IN  /\ schedules' = IF found
                           THEN Restrict(schedules, DOMAIN schedules \ {c})
                           ELSE schedules
           /\ jobs' = IF found THEN jobs \ {c} ELSE jobs
           /\ due' = IF found THEN due \ {c} ELSE due
           /\ sync_configs' = IF found
                              THEN [sync_configs EXCEPT
                                       ![c].schedule_enabled = FALSE,
                                       ![c].schedule_type = "",
                                       ![c].schedule_value = ""]
                              ELSE sync_configs
           /\ reloaders' = [reloaders EXCEPT ![t].stale = @ \ {c}]
    /\ UNCHANGED <<src, dst, file_states, sync_history, sync_stats, last_return,
                   engine_wrote, unchanged_runs>>
    /\ UNCHANGED <<running, task_queue, active_tasks, idle_workers,
                   busy_workers, starts, now>>
    /\ UNCHANGED <<callers, monVars, observers, dirs, quiet_reloads, reg_calls,
                   clockVars, sched_lock, runVars>>

\* _sync_schedules: the next add_schedule call of thread t
ReloadAdds(t) ==
    /\ t \in DOMAIN reloaders
    /\ reloaders[t].pc = "sync"
    /\ reloaders[t].stale = {}
    /\ reloaders[t].missing # {}
    /\ sched_lock = 0
    /\ LET c == NextConfig(reloaders[t].missing)
           sch == reloaders[t].desired[c]
       IN  IF ~running \/ c \notin DOMAIN sync_configs
           THEN /\ reloaders' = [reloaders EXCEPT ![t].missing = @ \ {c}]
                /\ UNCHANGED <<schedules, sync_configs, jobs, due, sched_lock>>
           ELSE IF c \in DOMAIN schedules
           THEN NestedRemove(t, c)
           ELSE /\ schedules' = [x \in DOMAIN schedules \cup {c} |->
                                    IF x = c THEN sch ELSE schedules[x]]
                /\ jobs' = jobs \cup {c}
                /\ due' = due \ {c}
                /\ sync_configs' = [sync_configs EXCEPT
                                       ![c].schedule_enabled = TRUE,
                                       ![c].schedule_type = sch.type,
                                       ![c].schedule_value = sch.value]
                /\ reloaders' = [reloaders EXCEPT ![t].missing = @ \ {c}]
                /\ UNCHANGED sched_lock
    /\ UNCHANGED <<src, dst, file_states, sync_history, sync_stats, last_return,
                   engine_wrote, unchanged_runs>>
    /\ UNCHANGED <<running, task_queue, active_tasks, idle_workers,
                   busy_workers, starts, now>>
    /\ UNCHANGED <<callers, monVars, observers, dirs, quiet_reloads, reg_calls,
                   clockVars, runVars>>

\* reload_configuration returns
ReloadReturns(t) ==
    /\ t \in DOMAIN reloaders
    /\ reloaders[t].pc = "sync"
    /\ reloaders[t].stale = {}
    /\ reloaders[t].missing = {}
    /\ reloaders' = Restrict(reloaders, DOMAIN reloaders \ {t})
    /\ UNCHANGED <<syncVars, schedVars, callers, monVars, observers, schedules,
                   dirs, quiet_reloads, reg_calls, clockVars, sched_lock, runVars>>

\* the settings the user saves in this specification: the activity and the
\* schedule of config 1
RaceChoices ==
    {cfg \in ConfigChoices(1) : ~cfg.realtime_monitor /\ cfg.source_path = "q"}

(* ------------------------------------------------------------------ *)
(* Specification of racing reloads: two UI threads reload while the     *)
(* user edits the schedule of config 1                                  *)
(* ------------------------------------------------------------------ *)
NextRace ==
    \/ \E t \in ReloadThreads : ReloadEnters(t)
    \/ \E t \in ReloadThreads : ReloadRemoves(t)
    \/ \E t \in ReloadThreads : ReloadAdds(t)
    \/ \E t \in ReloadThreads : ReloadReturns(t)
    \/ \E cfg \in RaceChoices : EditConfig(1, cfg)

SpecRace == InitReload /\ [][NextRace]_vars

\* C31: an add_schedule call for a config that has a registered schedule
\* replaces the registration by the new one and returns with the lock free,
\* and no thread ever waits inside add_schedule for the lock it holds itself.
C31_AddScheduleReturns ==
    /\ [][\A t \in DOMAIN reloaders :
             (/\ reloaders[t].pc = "sync"
              /\ t \in DOMAIN reloaders'
              /\ reloaders'[t] # reloaders[t]
              /\ reloaders[t].stale = {}
              /\ reloaders[t].missing # {}
              /\ NextConfig(reloaders[t].missing) \in DOMAIN schedules) =>
                LET c == NextConfig(reloaders[t].missing)
                IN  /\ c \in DOMAIN schedules'
                    /\ schedules'[c] = reloaders[t].desired[c]
                    /\ reloaders'[t].pc = "sync"
                    /\ sched_lock' = 0]_vars
    /\ [](\A t \in DOMAIN reloaders :
             ~(reloaders[t].pc = "remove_schedule" /\ sched_lock = t))

(* ------------------------------------------------------------------ *)
(* SyncOrchestrator.stop() and start() within one process               *)
(* ------------------------------------------------------------------ *)
\* SyncOrchestrator.stop(): SyncScheduler.stop() (the flag, the sentinels,
\* schedule.clear(); self.schedules is left as it is) and FileMonitor.stop()
\* (every observer stopped, self.observers cleared)
OrchestratorStops ==
    /\ running
    /\ sched_lock = 0
    /\ running' = FALSE
    /\ LET q == task_queue \o Sentinels(StopSentinels)
       IN  \E k \in 0..idle_workers :
              /\ k <= Len(q)
              /\ \A i \in 1..k : q[i].type = "none"
              /\ task_queue' = SubSeq(q, k + 1, Len(q))
    /\ idle_workers' = 0
    /\ jobs' = {}
    /\ due' = {}
    /\ next_run' = NoRuns
    /\ observers' = NoWatches
    /\ UNCHANGED <<active_tasks, busy_workers, starts, now>>
    /\ UNCHANGED <<syncVars, callers, monVars, schedules, dirs, quiet_reloads,
                   reg_calls, job_log, threadVars>>

\* SyncOrchestrator.start(): FileMonitor.start(), SyncScheduler.start(), then
\* reload_configuration(): the watches and schedules that are desired and not
\* registered are added, the registered ones that are not desired removed,
\* and the initial sync of the active configs is run (the store holds one
\* config, so that is at most one run)
OrchestratorStarts ==
    /\ ~running
    /\ sched_lock = 0
    /\ starts < MaxStarts
    /\ RunsStarted < MaxRuns
    /\ running' = TRUE
    /\ idle_workers' = idle_workers + 1
    /\ starts' = starts + 1
    /\ LET wDesired == DesiredWatches(sync_configs)
           wStale   == StaleWatches(wDesired)
           wKept    == Restrict(observers, DOMAIN observers \ wStale)
           wMissing == DOMAIN wDesired \ DOMAIN wKept
           wAdded   == wMissing \cap dirs
           sDesired == DesiredSchedules(sync_configs)
           sStale   == DOMAIN schedules \ DOMAIN sDesired
           sAdded   == MissingSchedules(sDesired)
           sKept    == DOMAIN schedules \ (sStale \cup sAdded)
       IN  /\ observers' = [d \in DOMAIN wKept \cup wAdded |->
                               IF d \in wAdded THEN wDesired[d] ELSE wKept[d]]
           /\ schedules' = [c \in sKept \cup sAdded |->
                               IF c \in sAdded THEN sDesired[c]
                               ELSE schedules[c]]
           /\ jobs' = (jobs \ sStale) \cup sAdded
           /\ due' = due \ (sStale \cup sAdded)
           /\ sync_configs' = [c \in DOMAIN sync_configs |->
                                  IF c \in sStale
                                  THEN [sync_configs[c] EXCEPT
                                           !.schedule_enabled = FALSE,
                                           !.schedule_type = "",
                                           !.schedule_value = ""]
                                  ELSE sync_configs[c]]
           /\ reg_calls' = {Call("remove_watch", d, 0) : d \in wStale} \cup
                           {Call("add_watch", d, 0) : d \in wMissing} \cup
                           {Call("remove_schedule", "", c) : c \in sStale} \cup
                           {Call("add_schedule", "", c) : c \in sAdded}
    /\ LET active == {c \in DOMAIN sync_configs : sync_configs[c].is_active}
       IN  IF active = {}
           THEN UNCHANGED <<dst, file_states, sync_history, sync_stats,
                            last_return, engine_wrote, unchanged_runs>>
           ELSE \E c \in active :
                  /\ active = {c}
                  /\ \E in \in RunInputs(c) :
                        LET out == SyncConfigCall(c, in)
                        IN  /\ dst' = [dst EXCEPT ![c] = out.dst]
                            /\ file_states' = out.fs
                            /\ sync_history' = out.history
                            /\ sync_stats' =
                                  [sync_stats EXCEPT
                                      ![sync_configs[c].target_type] = out.stats]
                            /\ last_return' = [config_id |-> c,
                                               success |-> out.success]
                            /\ engine_wrote' =
                                  engine_wrote \cup {<<c, p>> : p \in out.put}
                            /\ unchanged_runs' =
                                  [unchanged_runs EXCEPT ![c] = @ + 1]
    /\ UNCHANGED <<src, task_queue, active_tasks, busy_workers, now, callers,
                   monVars, dirs, quiet_reloads, clockVars, threadVars>>

(* ------------------------------------------------------------------ *)
(* Specification of the restart: one config, the user edits its         *)
(* activity and schedule, the orchestrator is stopped and started       *)
(* ------------------------------------------------------------------ *)
RestartConfigs == {1}

InitRestart ==
    /\ FreshStore(RestartConfigs, IdleConfig, EmptyDir)
    /\ SchedulerIdle

NextRestart ==
    \/ OrchestratorStarts
    \/ OrchestratorStops
    \/ Reload
    \/ \E cfg \in RaceChoices : EditConfig(1, cfg)
    \/ Tick
    \/ \E c \in RestartConfigs : ScheduleFires(c)

SpecRestart == InitRestart /\ [][NextRestart]_vars

\* C32: while the scheduler runs, every config in the schedule registry has a
\* job registered with the schedule library, also after a stop() and start()
\* of the orchestrator.
C32_RegistryHasJobs ==
    running => DOMAIN schedules \subseteq jobs

(* ------------------------------------------------------------------ *)
(* Specification of the worker's progress: run_sync_now calls, stop()   *)
(* and start(); a worker that can take a task or a sentinel does so,    *)
(* and every sync_config call returns                                   *)
(* ------------------------------------------------------------------ *)
QueueConfigs == {1, 2}

NextQueue ==
    \/ Start
    \/ Stop
    \/ \E c \in QueueConfigs : RunSyncNow(c)
    \/ WorkerTakesTask
    \/ WorkerTakesNone
    \/ \E w \in busy_workers : WorkerFinishes(w)

SpecQueue ==
    /\ InitSched
    /\ [][NextQueue]_vars
    /\ WF_vars(WorkerTakesTask)
    /\ WF_vars(WorkerTakesNone)
    /\ WF_vars(\E w \in busy_workers : WorkerFinishes(w))

\* a sync task for config c waits in the queue
QueuedFor(c) == \E i \in QueuedSyncs : task_queue[i].config_id = c

\* C33: a sync task waiting in the queue of the running scheduler is
\* eventually taken by a worker (its config gets into active_tasks), unless
\* the scheduler is stopped first; the history table of the model being full
\* ends the obligation.
C33_AcceptedTaskRuns ==
    \A c \in QueueConfigs :
        (running /\ QueuedFor(c)) ~>
            \/ c \in DOMAIN active_tasks
            \/ ~running
            \/ Len(sync_history) >= MaxSchedHistory

(* ------------------------------------------------------------------ *)
(* Specification of the monitored tree with its runs: programs change   *)
(* the watched tree, the monitor handles the events, the runs it        *)
(* starts and the runs the user starts do their work                    *)
(* ------------------------------------------------------------------ *)
NextPropagate ==
    \/ \E c \in Configs, n \in {0, 1} : TreeCreates(c, "a", n)
    \/ \E c \in Configs : TreeTouches(c, "a")
    \/ \E c \in Configs : TreeDeletes(c, "a")
    \/ MonitorHandles
    \/ \E c \in Configs : TriggerSync(c)
    \/ \E t \in callers : TriggerReturns(t)

SpecPropagate == InitWrite /\ [][NextPropagate]_vars

\* the destination of config c holds a copy of p that a run of the config
\* put there, p is gone from the source, and the monitor has handled the
\* deleted event of p
DeletionReported(c, p) ==
    /\ sync_configs[c].delete_missing
    /\ p \in DOMAIN dst[c]
    /\ <<c, p>> \in engine_wrote
    /\ p \notin DOMAIN src[c]
    /\ <<"deleted", p>> \in DOMAIN last_events
    /\ event_queue = <<>>

\* C34: with delete_missing on, once the monitor has handled the deleted
\* event of a source file whose destination copy an earlier run put there,
\* a run started by the monitor that returns success has deleted the copy.
C34_DeletePropagates ==
    [][\A t \in callers : \A p \in TreePaths :
          (/\ t \notin callers'
           /\ DeletionReported(t.config_id, p)
           /\ last_return'.success) =>
              p \notin DOMAIN dst'[t.config_id]]_vars

\* the write of file p of config c is complete, every event of it has been
\* handled, and the size tracking holds the size the file keeps
SizeObserved(c, p) ==
    /\ p \in DOMAIN src[c]
    /\ src[c][p].size = MaxFileSize
    /\ event_queue = <<>>
    /\ <<c, p>> \in DOMAIN file_sizes

\* C35: a non-empty file whose write is complete and whose events have all
\* been handled does not stay in the size tracking with nothing happening:
\* the monitor eventually confirms the size and starts the sync, even if no
\* further event of the file arrives.
C35_StableSizeTriggers ==
    \A c \in Configs :
        SizeObserved(c, "a") ~>
            \/ <<c, "a">> \notin DOMAIN file_sizes
            \/ event_queue # <<>>

(* ------------------------------------------------------------------ *)
(* Specification of a file that comes and goes: a program writes file   *)
(* a of the watched tree, deletes it and writes it again                *)
(* ------------------------------------------------------------------ *)
\* a program deletes file p of the watched source tree of config c
WriterRemoves(c, p) ==
    /\ Watched(c)
    /\ p \in DOMAIN src[c]
    /\ Len(event_queue) < MaxEventQueue
    /\ Len(sync_history) < MaxSchedHistory
    /\ src' = [src EXCEPT ![c] = Restrict(src[c], DOMAIN src[c] \ {p})]
    /\ event_queue' = Append(event_queue, Event("deleted", c, p))
    /\ unchanged_runs' = [unchanged_runs EXCEPT ![c] = 0]
    /\ UNCHANGED <<sync_configs, dst, file_states, sync_history, sync_stats,
                   last_return, engine_wrote>>
    /\ UNCHANGED <<schedVars, callers, last_events, file_sizes, mon_worker,
                   last_outcome, regVars>>

NextRecreate ==
    \/ \E c \in Configs : WriterCreates(c, "a")
    \/ \E c \in Configs : WriterAppends(c, "a")
    \/ \E c \in Configs : WriterRemoves(c, "a")
    \/ MonitorHandles
    \/ \E t \in callers : TriggerReturns(t)
    \/ DebounceTick

SpecRecreate == InitWrite /\ [][NextRecreate]_vars

\* the last event of path p the worker handled before time t was its
\* deleted event: no created or modified event of p was handled since
DeletedLast(p, t) ==
    /\ <<"deleted", p>> \in DOMAIN last_events
    /\ last_events[<<"deleted", p>>] < t
    /\ \A ty \in {"created", "modified"} :
          <<ty, p>> \in DOMAIN last_events =>
              last_events[<<ty, p>>] < last_events[<<"deleted", p>>]

\* C36: handling a deleted event of a path leaves no size recorded for the
\* path, and the first created or modified event of a non-empty file handled
\* at the path after its deleted event starts no sync.
C36_DeleteForgetsSize ==
    [][(TakesEvent /\ last_outcome' = "handled") =>
          LET e == Head(event_queue)
              k == <<e.config_id, e.src_path>>
          IN  /\ e.type = "deleted" => k \notin DOMAIN file_sizes'
              /\ (/\ e.type \in {"created", "modified"}
                  /\ e.src_path \in DOMAIN src[e.config_id]
                  /\ src[e.config_id][e.src_path].size > 0
                  /\ DeletedLast(e.src_path, e.timestamp)) =>
                     NoTrigger]_vars

(* ------------------------------------------------------------------ *)
(* Runs of the shared LocalSyncManager, one step per file               *)
(* ------------------------------------------------------------------ *)
\* the threads that call SyncService.sync_config
RunThreads == {1, 2}

\* the configs of target type local of this specification
SharedConfigs == {1, 2}

\* a thread inside sync_folders: its config, the history row sync_config
\* added for it, the listings of source and target it took, and the
\* operations it has made itself
Runner(c, hid, todo, target, own) ==
    [config_id |-> c, history_id |-> hid, todo |-> todo, target |-> target,
     own |-> own]

\* self.sync_stats[k] += 1
AddStat(stats, k) == [stats EXCEPT ![k] = @ + 1]

\* sync_config(c) up to the listings of sync_folders: the 'running' row, the
\* manager of the target type looked up in sync_managers, self.sync_stats
\* replaced by zeros, self.current_sync_id set to the row
FoldersBegin(t, c) ==
    /\ t \notin DOMAIN runners
    /\ c \in DOMAIN sync_configs
    /\ sync_configs[c].target_type = "local"
    /\ RunsStarted < MaxRuns
    /\ sync_history' = Append(sync_history, HistoryRow(c, "running"))
    /\ sync_stats' = [sync_stats EXCEPT !["local"] = ZeroStats]
    /\ current_sync_id' = Len(sync_history) + 1
    /\ runners' = Put(runners, t,
                      Runner(c, Len(sync_history) + 1, DOMAIN src[c],
                             DOMAIN dst[c], ZeroStats))
    /\ UNCHANGED <<sync_configs, src, dst, file_states, last_return,
                   engine_wrote, unchanged_runs>>
    /\ UNCHANGED <<schedVars, callers, monVars, observers, schedules, dirs,
                   quiet_reloads, reg_calls, clockVars, sched_lock, reloaders>>

\* the pass of the loop over source_files that thread t makes for path p;
\* ok: _copy_file succeeds
FoldersStep(t, p, ok) ==
    /\ t \in DOMAIN runners
    /\ p \in runners[t].todo
    /\ LET r == runners[t]
           c == r.config_id
           R == GetFileStates(file_states, c)
           op == IF p \notin r.target \/ p \notin DOMAIN dst[c] THEN "created"
                 ELSE IF NeedUpdate("local", src[c][p], dst[c][p], R, p)
                      THEN "updated"
                      ELSE "skipped"
           k == IF op = "skipped" \/ ok THEN op ELSE "errors"
       IN  /\ p \in DOMAIN src[c]
           /\ op = "skipped" => ok
           /\ IF k \in {"created", "updated"}
              THEN /\ dst' = [dst EXCEPT ![c] = Put(dst[c], p,
                                      Stored("local", src[c][p], now))]
                   /\ file_states' = Put(file_states, <<c, p>>,
                                         RowOf("local", src[c][p]))
                   /\ engine_wrote' = engine_wrote \cup {<<c, p>>}
              ELSE UNCHANGED <<dst, file_states, engine_wrote>>
           /\ sync_stats' = [sync_stats EXCEPT !["local"] = AddStat(@, k)]
           /\ runners' = [runners EXCEPT ![t].todo = @ \ {p},
                                         ![t].own = AddStat(@, k)]
    /\ UNCHANGED <<sync_configs, src, sync_history, last_return,
                   unchanged_runs, current_sync_id>>
    /\ UNCHANGED <<schedVars, callers, monVars, observers, schedules, dirs,
                   quiet_reloads, reg_calls, clockVars, sched_lock, reloaders>>

\* the end of sync_folders and of sync_config in thread t: the manager
\* finalises the row self.current_sync_id from self.sync_stats and returns
\* self.sync_stats; the service takes success from the returned counts,
\* updates the file states and finalises its row while it still says running
FoldersReturns(t) ==
    /\ t \in DOMAIN runners
    /\ runners[t].todo = {}
    /\ LET r == runners[t]
           c == r.config_id
           stats == sync_stats["local"]
           success == stats.errors = 0
           h == IF current_sync_id # 0
                THEN [sync_history EXCEPT
                         ![current_sync_id].status = ManagerStatus(stats)]
                ELSE sync_history
       IN  /\ sync_history' = ServiceFinalize(h, r.history_id, success)
           /\ file_states' = PutFileStates(file_states, c,
                                 UpdateFileStates("local", src[c],
                                     GetFileStates(file_states, c)))
           /\ last_return' = [config_id |-> c, success |-> success]
           /\ unchanged_runs' = [unchanged_runs EXCEPT ![c] = @ + 1]
           /\ runners' = Restrict(runners, DOMAIN runners \ {t})
    /\ UNCHANGED <<sync_configs, src, dst, sync_stats, engine_wrote,
                   current_sync_id>>
    /\ UNCHANGED <<schedVars, callers, monVars, observers, schedules, dirs,
                   quiet_reloads, reg_calls, clockVars, sched_lock, reloaders>>

(* ------------------------------------------------------------------ *)
(* Specification of shared managers: thread 1 runs config 1 and thread  *)
(* 2 runs config 2, both of target type local, while the user writes    *)
(* the sources                                                          *)
(* ------------------------------------------------------------------ *)
\* the config thread t runs
ConfigOfThread == [t \in RunThreads |-> t]

InitShared ==
    /\ FreshStore(SharedConfigs,
                  [target_type |-> "local", delete_missing |-> FALSE],
                  EmptyDir)
    /\ SchedulerIdle

NextShared ==
    \/ \E c \in SharedConfigs, f \in FileVals({1}, {0}) : WriteSource(c, "a", f)
    \/ \E t \in RunThreads : FoldersBegin(t, ConfigOfThread[t])
    \/ \E t \in RunThreads, ok \in BOOLEAN : FoldersStep(t, "a", ok)
    \/ \E t \in RunThreads : FoldersReturns(t)

SpecShared == InitShared /\ [][NextShared]_vars

\* the final statuses of a history row that say the run had no error, and
\* those that say it had one
FinalStatuses(errors) ==
    IF errors = 0 THEN {"success", "completed"} ELSE {"error", "failed"}

\* C37: when a run returns while runs of other configs of the same target
\* type are under way, the counts sync_folders returns, the success value of
\* sync_config and the final status of the history row added for the run are
\* those of the operations the run made itself.
C37_RunReportsOwnWork ==
    [][\A t \in DOMAIN runners :
          t \notin DOMAIN runners' =>
             /\ sync_stats["local"] = runners[t].own
             /\ last_return'.success = (runners[t].own.errors = 0)
             /\ sync_history'[runners[t].history_id].status \in
                    FinalStatuses(runners[t].own.errors)]_vars

(* ------------------------------------------------------------------ *)
(* Specification of a missing source: the scheduler started over one    *)
(* config whose source directory the user removes and creates again     *)
(* ------------------------------------------------------------------ *)
\* the config of this specification
MissingConfigs == {1}

InitMissing ==
    /\ FreshStore(MissingConfigs,
                  [target_type |-> "local", delete_missing |-> TRUE,
                   source_path |-> "p"],
                  EmptyDir)
    /\ SchedulerStarted(MissingConfigs)

NextMissing ==
    \/ MakeDir("p")
    \/ RemoveDir("p")
    \/ \E c \in MissingConfigs : TriggerSync(c)
    \/ \E c \in MissingConfigs : ScheduleFires(c)
    \/ WorkerTakesTask
    \/ \E w \in busy_workers : WorkerFinishes(w)
    \/ Tick

SpecMissing == InitMissing /\ [][NextMissing]_vars

\* the statuses of a history row that report a failed run
FailedStatuses == {"error", "failed"}

\* C38: a run that starts while the source directory of its config does not
\* exist is reported as failed: sync_config returns False, the history row
\* of the run ends with a failed status, and the row the scheduler keeps for
\* a scheduled run does not end completed.
C38_MissingSourceFails ==
    /\ [][\A c \in MissingConfigs :
            (SourceMissing(c) /\ TriggerSync(c)) =>
               /\ last_return' = [config_id |-> c, success |-> FALSE]
               /\ sync_history'[Len(sync_history')].status \in
                      FailedStatuses]_vars
    /\ [][\A w \in busy_workers :
            (SourceMissing(w.config_id) /\ WorkerFinishes(w)) =>
               /\ last_return' = [config_id |-> w.config_id, success |-> FALSE]
               /\ sync_history'[Len(sync_history')].status \in FailedStatuses
               /\ sync_history'[w.history_id].status # "completed"]_vars

\* the schedule settings the operator stored for config c
StoredSchedule(cfgs, c) ==
    [schedule_enabled |-> cfgs[c].schedule_enabled,
     schedule_type |-> cfgs[c].schedule_type,
     schedule_value |-> cfgs[c].schedule_value]

\* C39: reload_configuration leaves the stored schedule settings of every
\* config as the operator saved them, and when it removes the registration
\* of a deactivated config whose schedule is enabled and set, reactivating
\* the config and reloading would register that schedule again.
C39_ReloadKeepsSettings ==
    /\ [][Reload =>
            \A c \in DOMAIN sync_configs :
               StoredSchedule(sync_configs', c) =
                   StoredSchedule(sync_configs, c)]_vars
    /\ [][Reload =>
            \A c \in DOMAIN schedules \ DOMAIN schedules' :
               (/\ ~sync_configs[c].is_active
                /\ sync_configs[c].schedule_enabled
                /\ sync_configs[c].schedule_type # ""
                /\ sync_configs[c].schedule_value # "") =>
                  LET again == DesiredSchedules(
                          [sync_configs' EXCEPT ![c].is_active = TRUE])
                  IN  /\ c \in DOMAIN again
                      /\ again[c] = Schedule(sync_configs[c].schedule_type,
                                             sync_configs[c].schedule_value)]_vars

====
